---- MODULE Spec2Model ----
(***************************************************************************)
(* A model of the conversation / tool-orchestration loop of the SDG        *)
(* chatbot backend (src/backend/sdg_main.py): token counting, history      *)
(* trimming, the dispatcher's argument merge, the result sanitizer and the *)
(* /chatbot/ turn.                                                         *)
(*                                                                         *)
(* Texts.  A text is a sequence of segments [s |-> tag, i |-> k, n |->     *)
(* chars]: the first n characters of the k-th piece of text of the kind    *)
(* called tag.  The code only ever                                         *)
(* concatenates texts, takes prefixes (text[:k]) and splits at a literal,  *)
(* so every text it builds is such a sequence.  A literal (a marker the    *)
(* code writes or searches for) is a segment whose tag is the literal and  *)
(* whose n is the literal's full length; a literal cut short by a prefix   *)
(* has a smaller n and is no longer found by a search.                     *)
(***************************************************************************)
EXTENDS Integers, Sequences, FiniteSets, TLC

VARIABLES
    \* one call of manage_conversation_history on an arbitrary input
    mh_pc,        \* "off", "ready" (inputs chosen) or "done" (the call returned)
    mh_history,   \* the history passed in
    mh_new,       \* the new message passed in
    mh_out,       \* the history returned
    \* one tool result put through the sanitizer (lines 1085-1150)
    sn_pc,        \* "off", "ready" or "done"
    sn_result,    \* the collaborator's result
    sn_content,   \* the content of the tool message built from it
    \* one call of execute_function_call (lines 300-457)
    dp_pc,        \* "off", "ready" or "done"
    dp_query,     \* the turn's user_input
    dp_detected,  \* what the district lookup gives for it (Null or a name)
    dp_name,      \* function_name
    dp_arguments, \* the parsed arguments of the tool call
    dp_exec,      \* what the dispatcher did
    \* the /chatbot/ handler, turn after turn (lines 279-1203)
    pc,           \* "off", "idle" (no turn running), "llm1" (LLM call #1 made),
                  \* "tools" (the tool-call loop), "llm2" (LLM call #2 made)
    session_history,      \* session_store["history"]
    turns,        \* turns started so far
    turn_start,   \* the session_history when the turn started
    request_query,   \* the turn's query
    tool_calls,   \* the tool calls LLM call #1 returned
    function_results,      \* the list the tool-call loop fills
    all_boundaries,        \* the geometries the loop collects
    messages_with_results, \* the message list of LLM call #2
    returned,     \* what the turn gave the caller: a body or an HTTP error
    steps,        \* what the turn has done so far, in order (a record of the run)
    \* several requests in flight on the one event loop (run_server.py)
    running,      \* the request whose handler holds the event loop's thread (0: none)
    co            \* per request: where its handler is, and the message lists
                  \* its LLM calls were given

histVars == <<mh_pc, mh_history, mh_new, mh_out>>

sanVars == <<sn_pc, sn_result, sn_content>>

dispVars == <<dp_pc, dp_query, dp_detected, dp_name, dp_arguments, dp_exec>>

chatVars == <<pc, session_history, turns, turn_start, request_query, tool_calls, function_results,
              all_boundaries, messages_with_results, returned, steps>>

concVars == <<running, co>>

vars == <<mh_pc, mh_history, mh_new, mh_out, sn_pc, sn_result, sn_content,
          dp_pc, dp_query, dp_detected, dp_name, dp_arguments, dp_exec,
          pc, session_history, turns, turn_start, request_query, tool_calls, function_results,
          all_boundaries, messages_with_results, returned, steps, running, co>>

\* ------------------------------------------------------------------ texts

RECURSIVE StrLen(_)
StrLen(s) == IF s = <<>> THEN 0 ELSE s[1].n + StrLen(Tail(s))

\* text[:k]
RECURSIVE Prefix(_, _)
Prefix(s, k) ==
    IF k <= 0 \/ s = <<>> THEN <<>>
    ELSE IF s[1].n <= k THEN <<s[1]>> \o Prefix(Tail(s), k - s[1].n)
    ELSE <<[s[1] EXCEPT !.n = k]>>

\* one piece of text; i tells apart the pieces of one kind (the i-th item)
SegI(tag, index, chars) == <<[s |-> tag, i |-> index, n |-> chars]>>

Seg(tag, chars) == SegI(tag, 0, chars)

\* a literal, whole
Lit(tag, chars) == Seg(tag, chars)

\* literal in text: the literal occurs, whole, in the text
HasLit(text, lit) == \E j \in 1..Len(text) : text[j] = lit[1]

\* the place of the first occurrence of the literal (0 when there is none)
FirstLit(text, lit) ==
    IF HasLit(text, lit)
    THEN CHOOSE j \in 1..Len(text) :
            text[j] = lit[1] /\ \A k \in 1..(j - 1) : text[k] # lit[1]
    ELSE 0

\* text.split(lit, 1): one part when the literal does not occur, else two
Split1(text, lit) ==
    LET j == FirstLit(text, lit)
    IN IF j = 0 THEN <<text>>
       ELSE <<SubSeq(text, 1, j - 1), SubSeq(text, j + 1, Len(text))>>


\* ---------------------------------------------------------- token counter

\* characters per sub-word token of the encoder (tiktoken's average density)
CharsPerToken == 4

MAX_TOKENS == 128000

SAFE_TOKEN_LIMIT == (MAX_TOKENS * 4) \div 10

\* len(enc.encode(str(value)))
EncLen(chars) == (chars + CharsPerToken - 1) \div CharsPerToken

\* tokens of one field of a message; a role is one token
FieldTokens(key, value) ==
    (IF key = "role" THEN 1 ELSE EncLen(StrLen(value)))
    + (IF key = "name" THEN -1 ELSE 0)

RECURSIVE SumFields(_, _)
SumFields(m, keys) ==
    IF keys = {} THEN 0
    ELSE LET k == CHOOSE x \in keys : TRUE
         IN FieldTokens(k, m[k]) + SumFields(m, keys \ {k})

MessageTokens(m) == 4 + SumFields(m, DOMAIN m)

RECURSIVE SumMessages(_)
SumMessages(h) == IF h = <<>> THEN 0 ELSE MessageTokens(h[1]) + SumMessages(Tail(h))

count_tokens(messages) == SumMessages(messages) + 2

\* ------------------------------------------------------- history manager

SystemChars == 3450

SYSTEM_MESSAGE == [role |-> "system", content |-> Seg("system prompt", SystemChars)]

MessageTruncated == Seg("... [Message truncated]", 23)

\* the input history is kept as it is, with no system message put first
EnsureSystemNever(history) == history

\* lines 129-130: the system message is put first when it is missing
EnsureSystem(history) ==
    IF history = <<>> \/ history[1].role # "system"
    THEN <<SYSTEM_MESSAGE>> \o history
    ELSE history

\* history.pop(0): the oldest message, the system message included
Pop0(h) == Tail(h)

\* history.pop(): the newest message
PopLast(h) == SubSeq(h, 1, Len(h) - 1)

\* history.pop(1)
Pop1(h) == <<h[1]>> \o SubSeq(h, 3, Len(h))

\* the eviction loop with no floor on the length: it goes on while there is
\* a message after the system message
RECURSIVE EvictLoopNoFloor(_)
EvictLoopNoFloor(h) ==
    IF count_tokens(h) > SAFE_TOKEN_LIMIT /\ Len(h) > 1
    THEN EvictLoopNoFloor(<<h[1]>> \o SubSeq(h, 3, Len(h)))
    ELSE h

\* the eviction loop leaving after one pop
EvictOnce(h) ==
    IF count_tokens(h) > SAFE_TOKEN_LIMIT /\ Len(h) > 3
    THEN <<h[1]>> \o SubSeq(h, 3, Len(h))
    ELSE h

\* lines 136-137: the eviction loop
RECURSIVE EvictLoop(_)
EvictLoop(h) ==
    IF count_tokens(h) > SAFE_TOKEN_LIMIT /\ Len(h) > 3
    THEN EvictLoop(Pop1(h))
    ELSE h

\* lines 140-141: collapse to the system message and the last two messages
Collapse(h) ==
    IF count_tokens(h) > SAFE_TOKEN_LIMIT /\ Len(h) > 3
    THEN <<h[1]>> \o SubSeq(h, Len(h) - 1, Len(h))
    ELSE h

\* the last message's content cut whatever its length
TruncateLastAnyLength(h) ==
    IF count_tokens(h) > SAFE_TOKEN_LIMIT /\ Len(h) > 1
    THEN [h EXCEPT ![Len(h)] =
            [h[Len(h)] EXCEPT !.content = Prefix(h[Len(h)].content, 800) \o MessageTruncated]]
    ELSE h

\* lines 144-147: the last message's content is cut when it is long
TruncateLast(h) ==
    IF count_tokens(h) > SAFE_TOKEN_LIMIT /\ Len(h) > 1
    THEN LET last == h[Len(h)]
         IN IF StrLen(last.content) > 1000
            THEN [h EXCEPT ![Len(h)] =
                    [last EXCEPT !.content = Prefix(last.content, 800) \o MessageTruncated]]
            ELSE h
    ELSE h

Appended(history, new_message) == Append(EnsureSystem(history), new_message)

\* the new message appended with no trimming at all
manage_untrimmed(history, new_message) == Appended(history, new_message)

\* the history trimmed before, not after, the new message is appended
manage_trim_then_append(history, new_message) ==
    Append(TruncateLast(Collapse(EvictLoop(EnsureSystem(history)))), new_message)

manage_conversation_history(history, new_message) ==
    TruncateLast(Collapse(EvictLoop(Appended(history, new_message))))

\* ------------------------------------------------------ JSON-shaped values
\* A value is tagged with its Python type: [t |-> "null"], [t |-> "str", str
\* |-> text], [t |-> "int", int |-> n], [t |-> "bool", bool |-> b], [t |->
\* "list", list |-> sequence of values], [t |-> "dict", dict |-> sequence of
\* [k |-> key, v |-> value] in insertion order], a district row [t |->
\* "item", id |-> j], the four-field summary of a row [t |-> "summary", id
\* |-> j], a geometry [t |-> "geo", geo |-> id].

Null == [t |-> "null"]

StrV(text) == [t |-> "str", str |-> text]

IntV(n) == [t |-> "int", int |-> n]

ListV(items) == [t |-> "list", list |-> items]

DictV(pairs) == [t |-> "dict", dict |-> pairs]

IsDict(x) == x.t = "dict"

IsList(x) == x.t = "list"

BoolV(b) == [t |-> "bool", bool |-> b]

Geo(id) == [t |-> "geo", geo |-> id]

\* key in d
Has(d, key) == \E j \in 1..Len(d.dict) : d.dict[j].k = key

\* d.get(key): None when the key is missing
Get(d, key) ==
    IF Has(d, key)
    THEN d.dict[CHOOSE j \in 1..Len(d.dict) : d.dict[j].k = key].v
    ELSE Null

\* d.pop(key, None)
Pop(d, key) == DictV(SelectSeq(d.dict, LAMBDA p : p.k # key))

\* d[key] = value: in place when the key exists, else appended
Put(d, key, value) ==
    IF Has(d, key)
    THEN LET j == CHOOSE q \in 1..Len(d.dict) : d.dict[q].k = key
         IN DictV(SubSeq(d.dict, 1, j - 1) \o <<[k |-> key, v |-> value]>>
                  \o SubSeq(d.dict, j + 1, Len(d.dict)))
    ELSE DictV(Append(d.dict, [k |-> key, v |-> value]))

\* Python truth value
Truthy(x) ==
    CASE x.t = "null" -> FALSE
      [] x.t = "str" -> x.str # <<>>
      [] x.t = "list" -> x.list # <<>>
      [] x.t = "dict" -> x.dict # <<>>
      [] x.t = "int" -> x.int # 0
      [] x.t = "bool" -> x.bool
      [] OTHER -> TRUE

\* characters of one district row, of its four-field summary and of one
\* geometry in JSON
ItemChars == 450

SummaryChars == 90

GeoChars == 6000

Digits(n) == IF n < 10 THEN 1 ELSE IF n < 100 THEN 2 ELSE IF n < 1000 THEN 3 ELSE 4

\* the characters of a key's name
KeyChars(key) ==
    CASE key = "data" -> 4
      [] key = "error" -> 5
      [] key = "boundary" -> 8
      [] key = "map_type" -> 8
      [] key = "total_top" -> 9
      [] key = "query_type" -> 10
      [] key = "suggestion" -> 10
      [] key = "data_summary" -> 12
      [] key = "total_bottom" -> 12
      [] key = "boundary_data" -> 13
      [] key = "top_performers" -> 14
      [] key = "bottom_performers" -> 17
      [] key = "enhanced_analysis" -> 17
      [] OTHER -> 8

\* json.dumps(value, default=str), as a text
RECURSIVE Json(_)
RECURSIVE JsonItems(_)
RECURSIVE JsonPairs(_)
Json(x) ==
    CASE x.t = "null" -> Seg("null", 4)
      [] x.t = "str" -> Seg("\"", 1) \o x.str \o Seg("\"", 1)
      [] x.t = "int" -> SegI("number", x.int, Digits(x.int))
      [] x.t = "bool" -> IF x.bool THEN Seg("true", 4) ELSE Seg("false", 5)
      [] x.t = "list" -> Seg("[", 1) \o JsonItems(x.list) \o Seg("]", 1)
      [] x.t = "dict" -> Seg("{", 1) \o JsonPairs(x.dict) \o Seg("}", 1)
      [] x.t = "item" -> SegI("district row", x.id, ItemChars)
      [] x.t = "summary" -> SegI("district summary", x.id, SummaryChars)
      [] x.t = "geo" -> SegI("geometry", x.geo, GeoChars)
JsonItems(items) ==
    IF items = <<>> THEN <<>>
    ELSE Json(items[1])
         \o (IF Len(items) > 1 THEN Seg(", ", 2) ELSE <<>>)
         \o JsonItems(Tail(items))
JsonPairs(pairs) ==
    IF pairs = <<>> THEN <<>>
    ELSE Seg(pairs[1].k, KeyChars(pairs[1].k) + 2)
         \o Seg(": ", 2) \o Json(pairs[1].v)
         \o (IF Len(pairs) > 1 THEN Seg(", ", 2) ELSE <<>>)
         \o JsonPairs(Tail(pairs))

\* ------------------------------------------------------- result sanitizer

ENHANCED_ANALYSIS == Lit("ENHANCED_ANALYSIS:", 18)

OTHER_DATA == Lit("OTHER_DATA:", 11)

OtherDataTruncated == Seg("... [Other data truncated]", 26)

ResultTruncated == Seg("... [Result truncated for token limit]", 38)

\* lines 1102-1105: the first three rows, four fields each
RECURSIVE Summaries(_)
Summaries(rows) ==
    IF rows = <<>> THEN <<>>
    ELSE <<[t |-> "summary", id |-> rows[1].id]>> \o Summaries(Tail(rows))

First(items, k) == SubSeq(items, 1, IF Len(items) < k THEN Len(items) ELSE k)

\* lines 1098-1117: a trend result's data replaced by a summary
TrendSummary(clean) ==
    LET data_obj == Get(clean, "data")
    IN IF Has(clean, "data") /\ IsDict(data_obj)
          /\ Has(data_obj, "top_performers") /\ Has(data_obj, "bottom_performers")
       THEN LET top == Get(data_obj, "top_performers").list
                bottom == Get(data_obj, "bottom_performers").list
                summary == DictV(<<
                    [k |-> "top_performers", v |-> ListV(Summaries(First(top, 3)))],
                    [k |-> "bottom_performers", v |-> ListV(Summaries(First(bottom, 3)))],
                    [k |-> "total_top", v |-> IntV(Len(top))],
                    [k |-> "total_bottom", v |-> IntV(Len(bottom))] >>)
            IN Pop(Put(clean, "data_summary", summary), "data")
       ELSE clean

\* lines 1120-1124: a data list of more than 10 rows cut to its first 10
LimitData(clean) ==
    LET data_obj == Get(clean, "data")
    IN IF Has(clean, "data") /\ IsList(data_obj) /\ Len(data_obj.list) > 10
       THEN Put(Put(clean, "data", ListV(First(data_obj.list, 10))),
                "data_summary",
                StrV(Seg("Showing first 10 of ", 20)
                     \o SegI("number", Len(data_obj.list), Digits(Len(data_obj.list)))
                     \o Seg(" total districts", 16)))
       ELSE clean

\* only boundary popped, boundary_data left in
StripBoundaryOnly(result) == Pop(result, "boundary")

\* lines 1091-1092
StripBoundaries(result) == Pop(Pop(result, "boundary"), "boundary_data")

\* lines 1088-1124: the copy of a result that is shown to the model
CleanResult(function_result) ==
    IF IsDict(function_result)
    THEN LET clean == StripBoundaries(function_result)
         IN IF Get(clean, "query_type") = StrV(Seg("trend", 5)) /\ Has(clean, "enhanced_analysis")
            THEN TrendSummary(clean)
            ELSE LimitData(clean)
    ELSE function_result

\* str(value) inside an f-string
Str(x) == IF x.t = "str" THEN x.str ELSE Json(x)

\* lines 1127-1132
ResultStr(clean_result) ==
    IF IsDict(clean_result) /\ Has(clean_result, "enhanced_analysis")
    THEN ENHANCED_ANALYSIS \o Seg(" ", 1) \o Str(Get(clean_result, "enhanced_analysis"))
         \o Seg("\n\n", 2) \o OTHER_DATA \o Seg(" ", 1)
         \o Json(Pop(clean_result, "enhanced_analysis"))
    ELSE Json(clean_result)

\* lines 1135-1144: the cap on the text's size
CapResult(result_str) ==
    IF StrLen(result_str) > 4000
    THEN IF HasLit(result_str, ENHANCED_ANALYSIS)
         THEN LET parts == Split1(result_str, OTHER_DATA)
              IN IF Len(parts) = 2
                 THEN parts[1] \o OTHER_DATA \o Prefix(parts[2], 1000) \o OtherDataTruncated
                 ELSE result_str
         ELSE Prefix(result_str, 3800) \o ResultTruncated
    ELSE result_str

\* lines 1085-1144: the content of the tool message of one result
ToolContent(function_result) == CapResult(ResultStr(CleanResult(function_result)))

\* ------------------------------------------------ short texts, by character
\* A query or a state name is a text of one-character segments, so that
\* lower(), title(), substring search and the number patterns act on it
\* character by character.

Ch(c) == [s |-> c, i |-> 0, n |-> 1]

RECURSIVE Text(_)
Text(chars) == IF chars = <<>> THEN <<>> ELSE <<Ch(chars[1])>> \o Text(Tail(chars))

UpperCase ==
    <<"A", "B", "C", "D", "E", "F", "G", "H", "I", "J", "K", "L", "M",
      "N", "O", "P", "Q", "R", "S", "T", "U", "V", "W", "X", "Y", "Z">>

LowerCase ==
    <<"a", "b", "c", "d", "e", "f", "g", "h", "i", "j", "k", "l", "m",
      "n", "o", "p", "q", "r", "s", "t", "u", "v", "w", "x", "y", "z">>

DigitChars == <<"0", "1", "2", "3", "4", "5", "6", "7", "8", "9">>

IndexIn(c, table) ==
    IF \E j \in 1..Len(table) : table[j] = c
    THEN CHOOSE j \in 1..Len(table) : table[j] = c
    ELSE 0

IsUpper(seg) == seg.n = 1 /\ IndexIn(seg.s, UpperCase) > 0

IsLower(seg) == seg.n = 1 /\ IndexIn(seg.s, LowerCase) > 0

IsCased(seg) == IsUpper(seg) \/ IsLower(seg)

LowerOf(seg) == IF IsUpper(seg) THEN Ch(LowerCase[IndexIn(seg.s, UpperCase)]) ELSE seg

UpperOf(seg) == IF IsLower(seg) THEN Ch(UpperCase[IndexIn(seg.s, LowerCase)]) ELSE seg

\* str.lower()
RECURSIVE ToLower(_)
ToLower(text) == IF text = <<>> THEN <<>> ELSE <<LowerOf(text[1])>> \o ToLower(Tail(text))

\* the state name left as it is
TitleNone(text) == text

\* only the first character of the name upper-cased (str.capitalize())
TitleFirstOnly(text) ==
    IF text = <<>> THEN <<>> ELSE <<UpperOf(text[1])>> \o ToLower(Tail(text))

\* str.title(): a cased character is upper-cased when the one before it is
\* not cased, and lower-cased otherwise
RECURSIVE TitleUpTo(_, _)
TitleUpTo(text, j) ==
    IF j = 0 THEN <<>>
    ELSE Append(TitleUpTo(text, j - 1),
                IF j > 1 /\ IsCased(text[j - 1]) THEN LowerOf(text[j]) ELSE UpperOf(text[j]))

Title(text) == TitleUpTo(text, Len(text))

\* word at place p of the text
AtWord(text, p, word) ==
    /\ p >= 1
    /\ p + Len(word) - 1 <= Len(text)
    /\ \A j \in 1..Len(word) : text[p + j - 1] = Ch(word[j])

\* word in text
Contains(text, word) == \E p \in 1..Len(text) : AtWord(text, p, word)

\* any(word in text for word in words)
ContainsAny(text, words) == \E j \in 1..Len(words) : Contains(text, words[j])

IsDigitAt(text, p) == p >= 1 /\ p <= Len(text) /\ text[p].n = 1 /\ IndexIn(text[p].s, DigitChars) > 0

IsSpaceAt(text, p) == p >= 1 /\ p <= Len(text) /\ text[p].n = 1 /\ text[p].s \in {" ", "\t", "\n"}

\* the place after the run of digits (of white space) that starts at p
RECURSIVE DigitEnd(_, _)
DigitEnd(text, p) == IF IsDigitAt(text, p) THEN DigitEnd(text, p + 1) ELSE p

RECURSIVE SpaceEnd(_, _)
SpaceEnd(text, p) == IF IsSpaceAt(text, p) THEN SpaceEnd(text, p + 1) ELSE p

\* int() of the digits at places p..q-1
RECURSIVE IntOf(_, _, _)
IntOf(text, p, q) ==
    IF q <= p THEN 0
    ELSE 10 * IntOf(text, p, q - 1) + (IndexIn(text[q - 1].s, DigitChars) - 1)

\* a match of word\s+(\d+) (kind "wn") or of (\d+)\s+word (kind "nw") at p
MatchAt(text, p, pattern) ==
    IF pattern.kind = "wn"
    THEN /\ AtWord(text, p, pattern.word)
         /\ SpaceEnd(text, p + Len(pattern.word)) > p + Len(pattern.word)
         /\ IsDigitAt(text, SpaceEnd(text, p + Len(pattern.word)))
    ELSE /\ IsDigitAt(text, p)
         /\ SpaceEnd(text, DigitEnd(text, p)) > DigitEnd(text, p)
         /\ AtWord(text, SpaceEnd(text, DigitEnd(text, p)), pattern.word)

\* re.search(pattern, text): does it match, and group(1) of the leftmost match
Matches(text, pattern) == \E p \in 1..Len(text) : MatchAt(text, p, pattern)

Group1(text, pattern) ==
    LET p == CHOOSE q \in 1..Len(text) :
                MatchAt(text, q, pattern) /\ \A r \in 1..(q - 1) : ~MatchAt(text, r, pattern)
        d == IF pattern.kind = "wn" THEN SpaceEnd(text, p + Len(pattern.word)) ELSE p
    IN IntOf(text, d, DigitEnd(text, d))

\* --------------------------------------------------------- intent analyzer
\* line 159: ranking_keywords["top"]
ranking_top ==
    << <<"t", "o", "p">>,
       <<"b", "e", "s", "t">>,
       <<"h", "i", "g", "h", "e", "s", "t">>,
       <<"l", "e", "a", "d", "i", "n", "g">>,
       <<"s", "u", "p", "e", "r", "i", "o", "r">>,
       <<"g", "o", "o", "d">>,
       <<"b", "e", "t", "t", "e", "r">>,
       <<"p", "e", "r", "f", "o", "r", "m", "i", "n", "g", " ", "w", "e", "l", "l">> >>

\* line 160: ranking_keywords["bottom"]
ranking_bottom ==
    << <<"b", "o", "t", "t", "o", "m">>,
       <<"w", "o", "r", "s", "t">>,
       <<"l", "o", "w", "e", "s", "t">>,
       <<"p", "o", "o", "r", "e", "s", "t">>,
       <<"l", "a", "g", "g", "i", "n", "g">>,
       <<"b", "a", "d">>,
       <<"w", "o", "r", "s", "e">>,
       <<"p", "e", "r", "f", "o", "r", "m", "i", "n", "g", " ", "p", "o", "o", "r", "l", "y">> >>

\* line 161: ranking_keywords["both"]
ranking_both ==
    << <<"c", "o", "m", "p", "a", "r", "e">>,
       <<"c", "o", "m", "p", "a", "r", "i", "s", "o", "n">>,
       <<"t", "r", "e", "n", "d">>,
       <<"b", "o", "t", "h">>,
       <<"t", "o", "p", " ", "a", "n", "d", " ", "b", "o", "t", "t", "o", "m">>,
       <<"v", "e", "r", "s", "u", "s">>,
       <<"v", "s">> >>

\* line 169
district_keywords ==
    << <<"d", "i", "s", "t", "r", "i", "c", "t">>,
       <<"c", "i", "t", "y">>,
       <<"a", "r", "e", "a">>,
       <<"r", "e", "g", "i", "o", "n">>,
       <<"p", "l", "a", "c", "e">>,
       <<"i", "n", " ">>,
       <<"o", "f", " ">>,
       <<"f", "o", "r", " ">> >>

\* line 173
best_worst_phrases ==
    << <<"b", "e", "s", "t", " ", "p", "e", "r", "f", "o", "r", "m", "i", "n", "g">>,
       <<"w", "o", "r", "s", "t", " ", "p", "e", "r", "f", "o", "r", "m", "i", "n", "g">>,
       <<"t", "o", "p", " ", "p", "e", "r", "f", "o", "r", "m", "i", "n", "g">>,
       <<"b", "o", "t", "t", "o", "m", " ", "p", "e", "r", "f", "o", "r", "m", "i", "n", "g">>,
       <<"b", "e", "s", "t", " ", "d", "i", "s", "t", "r", "i", "c", "t">>,
       <<"w", "o", "r", "s", "t", " ", "d", "i", "s", "t", "r", "i", "c", "t">> >>

\* line 203
best_words ==
    << <<"b", "e", "s", "t">>,
       <<"t", "o", "p">>,
       <<"h", "i", "g", "h", "e", "s", "t">>,
       <<"l", "e", "a", "d", "i", "n", "g">> >>

\* line 191
many_words ==
    << <<"m", "a", "n", "y">>,
       <<"a", "l", "l">>,
       <<"l", "i", "s", "t">> >>

\* line 213
listing_words ==
    << <<"d", "i", "s", "t", "r", "i", "c", "t", "s">>,
       <<"l", "i", "s", "t">>,
       <<"r", "a", "n", "k", "i", "n", "g">>,
       <<"p", "e", "r", "f", "o", "r", "m", "a", "n", "c", "e">>,
       <<"s", "t", "a", "t", "u", "s">> >>

\* lines 177-180: number_patterns, in their order
number_patterns ==
    << [kind |-> "wn", word |-> <<"t", "o", "p">>],
       [kind |-> "wn", word |-> <<"b", "o", "t", "t", "o", "m">>],
       [kind |-> "nw", word |-> <<"b", "e", "s", "t">>],
       [kind |-> "nw", word |-> <<"w", "o", "r", "s", "t">>],
       [kind |-> "nw", word |-> <<"d", "i", "s", "t", "r", "i", "c", "t", "s">>],
       [kind |-> "wn", word |-> <<"s", "h", "o", "w">>],
       [kind |-> "wn", word |-> <<"l", "i", "s", "t">>],
       [kind |-> "wn", word |-> <<"f", "i", "r", "s", "t">>] >>

\* lines 217-228: state_keywords, in insertion order
state_keywords ==
    << [state |-> <<"r", "a", "j", "a", "s", "t", "h", "a", "n">>,
        keywords |-> <<<<"r", "a", "j", "a", "s", "t", "h", "a", "n">>>>],
       [state |-> <<"g", "u", "j", "a", "r", "a", "t">>,
        keywords |-> <<<<"g", "u", "j", "a", "r", "a", "t">>>>],
       [state |-> <<"m", "a", "h", "a", "r", "a", "s", "h", "t", "r", "a">>,
        keywords |-> <<<<"m", "a", "h", "a", "r", "a", "s", "h", "t", "r", "a">>>>],
       [state |-> <<"k", "a", "r", "n", "a", "t", "a", "k", "a">>,
        keywords |-> <<<<"k", "a", "r", "n", "a", "t", "a", "k", "a">>>>],
       [state |-> <<"t", "a", "m", "i", "l", " ", "n", "a", "d", "u">>,
        keywords |-> <<<<"t", "a", "m", "i", "l", " ", "n", "a", "d", "u">>, <<"t", "a", "m", "i", "l", "n", "a", "d", "u">>>>],
       [state |-> <<"k", "e", "r", "a", "l", "a">>,
        keywords |-> <<<<"k", "e", "r", "a", "l", "a">>>>],
       [state |-> <<"w", "e", "s", "t", " ", "b", "e", "n", "g", "a", "l">>,
        keywords |-> <<<<"w", "e", "s", "t", " ", "b", "e", "n", "g", "a", "l">>, <<"b", "e", "n", "g", "a", "l">>>>],
       [state |-> <<"u", "t", "t", "a", "r", " ", "p", "r", "a", "d", "e", "s", "h">>,
        keywords |-> <<<<"u", "t", "t", "a", "r", " ", "p", "r", "a", "d", "e", "s", "h">>, <<"u", "p">>>>],
       [state |-> <<"b", "i", "h", "a", "r">>,
        keywords |-> <<<<"b", "i", "h", "a", "r">>>>],
       [state |-> <<"o", "d", "i", "s", "h", "a">>,
        keywords |-> <<<<"o", "d", "i", "s", "h", "a">>, <<"o", "r", "i", "s", "s", "a">>>>] >>

QT_top_performers == StrV(Seg("top_performers", 14))

QT_bottom_performers == StrV(Seg("bottom_performers", 17))

QT_trend == StrV(Seg("trend", 5))

QT_individual == StrV(Seg("individual", 10))

QT_individual_district == StrV(Seg("individual_district", 19))

QT_best_district == StrV(Seg("best_district", 13))

QT_worst_district == StrV(Seg("worst_district", 14))

\* lines 182-187: the first pattern of the list that matches decides
RECURSIVE FirstMatch(_, _)
FirstMatch(text, patterns) ==
    IF patterns = <<>> THEN Null
    ELSE IF Matches(text, patterns[1]) THEN IntV(Group1(text, patterns[1]))
    ELSE FirstMatch(text, Tail(patterns))

\* the place in the text where the pattern first matches
FirstPlace(text, pattern) ==
    CHOOSE q \in 1..Len(text) :
        MatchAt(text, q, pattern) /\ \A r \in 1..(q - 1) : ~MatchAt(text, r, pattern)

\* the match that comes first in the text decides, whatever its pattern
TopNEarliestInText(query_lower) ==
    LET matching == {j \in 1..Len(number_patterns) : Matches(query_lower, number_patterns[j])}
    IN IF matching # {}
       THEN LET j == CHOOSE x \in matching :
                        \A y \in matching :
                            FirstPlace(query_lower, number_patterns[x])
                                <= FirstPlace(query_lower, number_patterns[y])
            IN IntV(Group1(query_lower, number_patterns[j]))
       ELSE IF ContainsAny(query_lower, many_words) THEN IntV(10) ELSE IntV(5)

\* lines 182-194
TopN(query_lower) ==
    LET found == FirstMatch(query_lower, number_patterns)
    IN IF found # Null THEN found
       ELSE IF ContainsAny(query_lower, many_words) THEN IntV(10) ELSE IntV(5)

\* a detected district decides before a best/worst phrase is looked at
QueryTypeDistrictFirst(query_lower, has_specific_district, is_best_worst_query) ==
    IF has_specific_district THEN QT_individual_district
    ELSE IF is_best_worst_query
         THEN (IF ContainsAny(query_lower, best_words) THEN QT_best_district ELSE QT_worst_district)
    ELSE IF ContainsAny(query_lower, ranking_both) THEN QT_trend
    ELSE IF ContainsAny(query_lower, ranking_bottom) THEN QT_bottom_performers
    ELSE QT_top_performers

\* lines 196-214
QueryType(query_lower, has_specific_district, is_best_worst_query) ==
    IF has_specific_district /\ ~is_best_worst_query THEN QT_individual_district
    ELSE IF is_best_worst_query
         THEN (IF ContainsAny(query_lower, best_words) THEN QT_best_district ELSE QT_worst_district)
    ELSE IF ContainsAny(query_lower, ranking_both) THEN QT_trend
    ELSE IF ContainsAny(query_lower, ranking_bottom) THEN QT_bottom_performers
    ELSE IF ContainsAny(query_lower, ranking_top) THEN QT_top_performers
    ELSE IF ContainsAny(query_lower, listing_words) THEN QT_top_performers
    ELSE QT_top_performers

\* lines 230-234: the first state of the lexicon one of whose names occurs
RECURSIVE DetectedState(_, _)
DetectedState(query_lower, lexicon) ==
    IF lexicon = <<>> THEN Null
    ELSE IF ContainsAny(query_lower, lexicon[1].keywords) THEN StrV(Text(lexicon[1].state))
    ELSE DetectedState(query_lower, Tail(lexicon))

\* lines 151-244.  detected_district is what the district lookup
\* (extract_district_name_from_query, a fuzzy match against the store) gave
\* for the query: Null or a district name.
analyze_sdg_query_intent(user_query, detected_district) ==
    LET query_lower == ToLower(user_query)
        has_specific_district == detected_district # Null
        is_best_worst_query == ContainsAny(query_lower, best_worst_phrases)
    IN [ query_type |-> QueryType(query_lower, has_specific_district, is_best_worst_query),
         top_n |-> TopN(query_lower),
         state_name |-> DetectedState(query_lower, state_keywords),
         has_specific_district |-> has_specific_district,
         detected_district |-> detected_district,
         is_best_worst_query |-> is_best_worst_query,
         has_district_pattern |-> ContainsAny(query_lower, district_keywords) ]

\* ------------------------------------------------------ function dispatcher

\* lines 349-454: the branches that build the call keyword by keyword.  A
\* parameter is read as arguments[k] (mode "index": KeyError when missing) or
\* as arguments.get(k, default) (mode "get").
ExplicitNames ==
    { "get_indicators_by_sdg_goal",
      "get_sdg_goal_classification",
      "get_individual_district_sdg_data",
      "get_district_indicator_selection_prompt",
      "get_best_worst_district_for_indicator",
      "get_aac_classification",
      "get_most_least_improved_districts",
      "get_border_districts",
      "get_districts_within_radius" }

ExplicitParams(function_name) ==
    CASE function_name = "get_indicators_by_sdg_goal" ->
            << [k |-> "sdg_goal_number", mode |-> "index", default |-> Null] >>
      [] function_name = "get_sdg_goal_classification" ->
            << [k |-> "sdg_goal_number", mode |-> "index", default |-> Null],
               [k |-> "year", mode |-> "get", default |-> IntV(2021)],
               [k |-> "state_name", mode |-> "get", default |-> Null],
               [k |-> "classification_type", mode |-> "get", default |-> StrV(Seg("status", 6))],
               [k |-> "default_indicator", mode |-> "get", default |-> Null] >>
      [] function_name = "get_individual_district_sdg_data" ->
            << [k |-> "district_name", mode |-> "index", default |-> Null],
               [k |-> "sdg_goal_number", mode |-> "get", default |-> Null],
               [k |-> "indicator_names", mode |-> "get", default |-> Null],
               [k |-> "year", mode |-> "get", default |-> IntV(2021)],
               [k |-> "state_name", mode |-> "get", default |-> Null] >>
      [] function_name = "get_district_indicator_selection_prompt" ->
            << [k |-> "district_name", mode |-> "index", default |-> Null],
               [k |-> "sdg_goal_number", mode |-> "index", default |-> Null] >>
      [] function_name = "get_best_worst_district_for_indicator" ->
            << [k |-> "sdg_goal_number", mode |-> "get", default |-> Null],
               [k |-> "indicator_name", mode |-> "get", default |-> Null],
               [k |-> "query_type", mode |-> "get", default |-> StrV(Seg("best", 4))],
               [k |-> "year", mode |-> "get", default |-> IntV(2021)],
               [k |-> "state_name", mode |-> "get", default |-> Null] >>
      [] function_name = "get_aac_classification" ->
            << [k |-> "sdg_goal_number", mode |-> "index", default |-> Null],
               [k |-> "year", mode |-> "get", default |-> IntV(2021)],
               [k |-> "state_name", mode |-> "get", default |-> Null],
               [k |-> "classification_method", mode |-> "get", default |-> StrV(Seg("quantile", 8))],
               [k |-> "default_indicator", mode |-> "get", default |-> Null] >>
      [] function_name = "get_most_least_improved_districts" ->
            << [k |-> "sdg_goal_number", mode |-> "index", default |-> Null],
               [k |-> "indicator_name", mode |-> "get", default |-> Null],
               [k |-> "query_type", mode |-> "get", default |-> StrV(Seg("most_improved", 13))],
               [k |-> "top_n", mode |-> "get", default |-> IntV(5)],
               [k |-> "state_name", mode |-> "get", default |-> Null] >>
      [] function_name = "get_border_districts" ->
            << [k |-> "state1", mode |-> "index", default |-> Null],
               [k |-> "state2", mode |-> "get", default |-> Null],
               [k |-> "sdg_goal_number", mode |-> "get", default |-> Null],
               [k |-> "indicator_names", mode |-> "get", default |-> Null],
               [k |-> "year", mode |-> "get", default |-> IntV(2021)],
               [k |-> "include_boundary_data", mode |-> "get", default |-> BoolV(TRUE)] >>
      [] function_name = "get_districts_within_radius" ->
            << [k |-> "center_point", mode |-> "index", default |-> Null],
               [k |-> "radius_km", mode |-> "index", default |-> Null],
               [k |-> "sdg_goal_number", mode |-> "get", default |-> Null],
               [k |-> "indicator_names", mode |-> "get", default |-> Null],
               [k |-> "max_districts", mode |-> "get", default |-> IntV(50)],
               [k |-> "include_boundary_data", mode |-> "get", default |-> BoolV(TRUE)] >>

\* lines 405-422: the branches that call collaborator(**arguments); the
\* collaborator's parameters and those without a default come from its
\* signature in sdg_utils.py
StarNames ==
    { "get_state_wise_summary",
      "get_time_series_comparison",
      "get_aspirational_district_tracking",
      "get_cross_sdg_analysis",
      "get_neighboring_districts_comparison",
      "get_state_wise_indicator_extremes" }

StarParams(function_name) ==
    CASE function_name = "get_state_wise_summary" ->
            [all |-> {"sdg_goal_number", "indicator_names", "year", "top_n", "sort_by"},
             required |-> {}]
      [] function_name = "get_time_series_comparison" ->
            [all |-> {"sdg_goal_number", "indicator_names", "analysis_type", "top_n", "state_name"},
             required |-> {}]
      [] function_name = "get_aspirational_district_tracking" ->
            [all |-> {"sdg_goal_number", "indicator_names", "analysis_type", "year", "top_n", "state_name"},
             required |-> {}]
      [] function_name = "get_cross_sdg_analysis" ->
            [all |-> {"sdg_goals", "analysis_type", "year", "top_n", "state_name"},
             required |-> {"sdg_goals"}]
      [] function_name = "get_neighboring_districts_comparison" ->
            [all |-> {"district_name", "sdg_goal_number", "indicator_names", "year", "neighbor_method", "max_distance_km", "max_neighbors"},
             required |-> {"district_name"}]
      [] function_name = "get_state_wise_indicator_extremes" ->
            [all |-> {"indicator_name", "year", "include_aac", "min_districts_per_state"},
             required |-> {"indicator_name"}]

CatalogNames == {"get_sdg_goal_data"} \cup ExplicitNames \cup StarNames

Keys(d) == {d.dict[j].k : j \in 1..Len(d.dict)}

\* the keyword arguments of an explicit branch
RECURSIVE Kwargs(_, _)
Kwargs(arguments, params) ==
    IF params = <<>> THEN <<>>
    ELSE <<[k |-> params[1].k,
            v |-> IF Has(arguments, params[1].k) THEN Get(arguments, params[1].k)
                  ELSE params[1].default]>>
         \o Kwargs(arguments, Tail(params))

\* line 307 with the analyzer's value taking precedence
FinalQueryTypeIntentFirst(arguments, query_intent) == query_intent.query_type

\* line 307 with the hard default in place of the analyzer's value
FinalQueryTypeHardDefault(arguments, query_intent) ==
    IF Has(arguments, "query_type") THEN Get(arguments, "query_type") ELSE QT_individual

\* line 307: arguments.get("query_type", query_intent["query_type"])
FinalQueryType(arguments, query_intent) ==
    IF Has(arguments, "query_type") THEN Get(arguments, "query_type") ELSE query_intent.query_type

\* line 308 with the analyzer's value taking precedence
FinalTopNIntentFirst(arguments, query_intent) == query_intent.top_n

\* line 308: arguments.get("top_n", query_intent["top_n"])
FinalTopN(arguments, query_intent) ==
    IF Has(arguments, "top_n") THEN Get(arguments, "top_n") ELSE query_intent.top_n

\* lines 309-313 without the title-casing
FinalStateNameAsGiven(arguments, query_intent) ==
    IF Truthy(Get(arguments, "state_name")) THEN Get(arguments, "state_name")
    ELSE query_intent.state_name

\* lines 309-313: arguments.get("state_name") or query_intent.get("state_name"),
\* title-cased when it is not empty
FinalStateName(arguments, query_intent) ==
    LET final_state_name ==
            IF Truthy(Get(arguments, "state_name")) THEN Get(arguments, "state_name")
            ELSE query_intent.state_name
    IN IF Truthy(final_state_name) THEN StrV(Title(final_state_name.str)) ELSE final_state_name

Default(arguments, key, default) == IF Has(arguments, key) THEN Get(arguments, key) ELSE default

\* lines 302-330: the ranking function's call
RankingKwargs(arguments, query_intent) ==
    DictV(<< [k |-> "sdg_goal_number", v |-> Get(arguments, "sdg_goal_number")],
             [k |-> "indicator_names", v |-> Get(arguments, "indicator_names")],
             [k |-> "year", v |-> Default(arguments, "year", IntV(2021))],
             [k |-> "query_type", v |-> FinalQueryType(arguments, query_intent)],
             [k |-> "top_n", v |-> FinalTopN(arguments, query_intent)],
             [k |-> "district_name", v |-> Get(arguments, "district_name")],
             [k |-> "state_name", v |-> FinalStateName(arguments, query_intent)],
             [k |-> "include_labels", v |-> Default(arguments, "include_labels", BoolV(TRUE))] >>)

\* the characters of a function name that is not in the catalog
NameChars(function_name) ==
    CASE function_name = "nonexistent_function" -> 20
      [] function_name = "get_weather" -> 11
      [] OTHER -> 16

ErrorResult(text) == DictV(<<[k |-> "error", v |-> StrV(text)]>>)

\* an unknown name raises instead of returning an error mapping
UnknownFunctionRaises(function_name) == [kind |-> "raise", exc |-> "KeyError"]

\* lines 456-457
UnknownFunction(function_name) ==
    [kind |-> "return",
     result |-> ErrorResult(Seg("Unknown function: ", 18) \o Seg(function_name, NameChars(function_name)))]

\* lines 300-457.  What execute_function_call does before the collaborator
\* answers: it calls one collaborator with keyword arguments (kind "call"),
\* returns a result of its own (kind "return") or raises (kind "raise").
\* user_input is the turn's query and detected_district what the analyzer's
\* district lookup gives for it.
execute_function_call(function_name, arguments, user_input, detected_district) ==
    IF function_name = "get_sdg_goal_data"
    THEN [kind |-> "call", fn |-> function_name,
          kwargs |-> RankingKwargs(arguments, analyze_sdg_query_intent(user_input, detected_district))]
    ELSE IF function_name \in ExplicitNames
    THEN LET params == ExplicitParams(function_name)
         IN IF \E j \in 1..Len(params) : params[j].mode = "index" /\ ~Has(arguments, params[j].k)
            THEN [kind |-> "raise", exc |-> "KeyError"]
            ELSE [kind |-> "call", fn |-> function_name, kwargs |-> DictV(Kwargs(arguments, params))]
    ELSE IF function_name \in StarNames
    THEN LET params == StarParams(function_name)
         IN IF ~(Keys(arguments) \subseteq params.all) \/ ~(params.required \subseteq Keys(arguments))
            THEN [kind |-> "raise", exc |-> "TypeError"]
            ELSE [kind |-> "call", fn |-> function_name, kwargs |-> arguments]
    ELSE UnknownFunction(function_name)

\* ------------------------------------------- the history manager, alone

\* longest input history of a call checked alone
MaxHistory == 4

\* content sizes (characters) of the messages of an input: a short one, one
\* over the 1000 characters of the final truncation, and one that fits the
\* budget next to the system message with nothing to spare
ContentSizes == {40, 1200, 201300}

InputMessages ==
    {[role |-> r, content |-> Seg("text", n)] : r \in {"user", "assistant"}, n \in ContentSizes}

RECURSIVE SeqsUpTo(_, _)
SeqsUpTo(S, k) ==
    IF k = 0 THEN {<<>>}
    ELSE LET shorter == SeqsUpTo(S, k - 1)
         IN shorter \cup {Append(q, x) : q \in {p \in shorter : Len(p) = k - 1}, x \in S}

\* empty, starting with a non-system message, or starting with the system message
InputHistories ==
    LET tails == SeqsUpTo(InputMessages, MaxHistory - 1)
    IN {<<>>} \cup {<<m>> \o t : m \in InputMessages \cup {SYSTEM_MESSAGE}, t \in tails}

HistOff == mh_pc = "off" /\ mh_history = <<>> /\ mh_new = SYSTEM_MESSAGE /\ mh_out = <<>>

SanOff == sn_pc = "off" /\ sn_result = Null /\ sn_content = <<>>

DispOff ==
    /\ dp_pc = "off"
    /\ dp_query = <<>>
    /\ dp_detected = Null
    /\ dp_name = ""
    /\ dp_arguments = DictV(<<>>)
    /\ dp_exec = [kind |-> "none"]

ConcOff == running = 0 /\ co = <<>>

ChatOff ==
    /\ pc = "off"
    /\ session_history = <<>>
    /\ turns = 0
    /\ turn_start = <<>>
    /\ request_query = <<>>
    /\ tool_calls = <<>>
    /\ function_results = <<>>
    /\ all_boundaries = <<>>
    /\ messages_with_results = <<>>
    /\ returned = [kind |-> "none"]
    /\ steps = <<>>

InitHist ==
    /\ ConcOff
    /\ SanOff
    /\ DispOff
    /\ ChatOff
    /\ mh_pc = "ready"
    /\ mh_history \in InputHistories
    /\ mh_new \in InputMessages
    /\ mh_out = <<>>

CallManage ==
    /\ mh_pc = "ready"
    /\ mh_out' = manage_conversation_history(mh_history, mh_new)
    /\ mh_pc' = "done"
    /\ UNCHANGED <<mh_history, mh_new>>
    /\ UNCHANGED <<sanVars, dispVars, chatVars, concVars>>

NextHist == CallManage

SpecHist == InitHist /\ [][NextHist]_vars

\* the list the eviction loop starts from, and the list it leaves
mh_appended == Appended(mh_history, mh_new)

mh_evicted == EvictLoop(mh_appended)

\* the last message's content is not the one passed in: the final step cut it
LastTruncated(out, new_message) ==
    /\ out # <<>>
    /\ out[Len(out)].content # new_message.content
    /\ out[Len(out)].content = Prefix(new_message.content, 800) \o MessageTruncated

\* C3: after every call of manage_conversation_history the returned history
\* is within SAFE_TOKEN_LIMIT, or has at most 3 messages, or has its last
\* message's content truncated by the final step.
C3_BudgetOrFloorOrTruncated ==
    mh_pc = "done" =>
        \/ count_tokens(mh_out) <= SAFE_TOKEN_LIMIT
        \/ Len(mh_out) <= 3
        \/ LastTruncated(mh_out, mh_new)

\* a call that returns an over-budget history, at the floor, with the last
\* message truncated
C3_Witness ==
    /\ mh_pc = "done"
    /\ count_tokens(mh_out) > SAFE_TOKEN_LIMIT
    /\ Len(mh_out) = 3
    /\ Len(mh_appended) > 3
    /\ LastTruncated(mh_out, mh_new)

\* C4 as stated: the returned history's token count is within
\* SAFE_TOKEN_LIMIT after every call of manage_conversation_history.
C4_AlwaysWithinBudget ==
    mh_pc = "done" => count_tokens(mh_out) <= SAFE_TOKEN_LIMIT

\* C4 amended: a returned history of more than 3 messages is within
\* SAFE_TOKEN_LIMIT (one of 3 or fewer messages may exceed it).
C4_WithinBudgetAboveFloor ==
    (mh_pc = "done" /\ Len(mh_out) > 3) => count_tokens(mh_out) <= SAFE_TOKEN_LIMIT

\* a call that evicted and returned more than 3 messages
C4_Witness ==
    /\ mh_pc = "done"
    /\ Len(mh_out) > 3
    /\ Len(mh_out) < Len(mh_appended)

\* C5: a call that performs K evictions on the N messages it starts from
\* removes exactly positions 1..K (0-based) of that list: what it returns is
\* the system message followed by the newest N-K-1 messages in their order,
\* the last one's content possibly cut by the final step.
C5_EvictionOldestFirst ==
    mh_pc = "done" =>
        LET pre == mh_appended
            N == Len(pre)
            K == N - Len(mh_out)
            kept == <<pre[1]>> \o SubSeq(pre, K + 2, N)
        IN /\ K >= 0
           /\ Len(mh_out) = Len(kept)
           /\ mh_out[1] = SYSTEM_MESSAGE
           /\ \A i \in 1..(Len(kept) - 1) : mh_out[i] = kept[i]
           /\ mh_out[Len(mh_out)].role = kept[Len(kept)].role
           /\ \/ mh_out[Len(mh_out)].content = kept[Len(kept)].content
              \/ LastTruncated(mh_out, mh_new)

\* a call that evicted two or more messages
C5_Witness ==
    /\ mh_pc = "done"
    /\ Len(mh_appended) - Len(mh_out) >= 2
    /\ Len(mh_out) >= 3

\* ------------------------------------------------- the sanitizer, alone

\* rows of the data lists of an input result
RECURSIVE Rows(_)
Rows(n) == IF n = 0 THEN <<>> ELSE Append(Rows(n - 1), [t |-> "item", id |-> n])

ShortList == 3

LongList == 12

\* analysis texts: a short one, one longer than the cap, and one that quotes
\* the words OTHER_DATA: itself
AnalysisTexts ==
    { Seg("analysis", 500),
      Seg("analysis", 4500),
      Seg("analysis", 200) \o OTHER_DATA \o Seg("analysis, continued", 1500) }

Opt(key, values) == {<<>>} \cup {<<[k |-> key, v |-> x]>> : x \in values}

QueryTypeValues == {StrV(Seg("trend", 5)), StrV(Seg("top_performers", 14))}

DataValues ==
    { ListV(Rows(ShortList)),
      ListV(Rows(LongList)),
      DictV(<< [k |-> "top_performers", v |-> ListV(Rows(ShortList + 1))],
               [k |-> "bottom_performers", v |-> ListV(Rows(ShortList - 1))] >>),
      StrV(Seg("note", 4100) \o ENHANCED_ANALYSIS \o Seg("note, continued", 10)) }

BoundaryValues ==
    { ListV(<<Geo(1), Geo(2)>>),
      Geo(3),
      ListV(<<>>) }

BoundaryDataValues == { ListV(<<Geo(4)>>) }

MapTypeValues == { StrV(Seg("sdg_ranking", 11)) }

\* what a collaborator may return: a mapping with any of the recognized
\* keys, an error mapping, or something that is no mapping
InputResults ==
    { DictV(q \o d \o e \o b \o bd \o m) :
        q \in Opt("query_type", QueryTypeValues),
        d \in Opt("data", DataValues),
        e \in Opt("enhanced_analysis", {StrV(a) : a \in AnalysisTexts}),
        b \in Opt("boundary", BoundaryValues),
        bd \in Opt("boundary_data", BoundaryDataValues),
        m \in Opt("map_type", MapTypeValues) }
    \cup { ErrorResult(Seg("Error in SDG goal data routing: ", 32) \o Seg("exception text", 40)),
           ListV(Rows(ShortList)) }

InitSan ==
    /\ ConcOff
    /\ HistOff
    /\ DispOff
    /\ ChatOff
    /\ sn_pc = "ready"
    /\ sn_result \in InputResults
    /\ sn_content = <<>>

Sanitize ==
    /\ sn_pc = "ready"
    /\ sn_content' = ToolContent(sn_result)
    /\ sn_pc' = "done"
    /\ UNCHANGED sn_result
    /\ UNCHANGED <<histVars, dispVars, chatVars, concVars>>

NextSan == Sanitize

SpecSan == InitSan /\ [][NextSan]_vars

\* the labeled serialization of the result, before the cap
sn_labeled == ResultStr(CleanResult(sn_result))

\* C6 as stated: when a result carries an enhanced_analysis text and its
\* labeled serialization is longer than 4000 characters, the tool message
\* content is the label, the complete analysis text, and the OTHER_DATA block
\* cut to its first 1000 characters plus the marker.
C6_AnalysisSurvives ==
    (/\ sn_pc = "done"
     /\ IsDict(sn_result)
     /\ Has(sn_result, "enhanced_analysis")
     /\ StrLen(sn_labeled) > 4000)
    => LET analysis == Get(sn_result, "enhanced_analysis").str
           head == ENHANCED_ANALYSIS \o Seg(" ", 1) \o analysis \o Seg("\n\n", 2) \o OTHER_DATA
           block == Seg(" ", 1) \o Json(Pop(CleanResult(sn_result), "enhanced_analysis"))
       IN sn_content = head \o Prefix(block, 1000) \o OtherDataTruncated

\* ------------------------------------------------ the dispatcher, alone

\* user queries
\* "Worst 3 districts in Kerala for SDG 1"
Q_worst_kerala ==
    Text(<<"W", "o", "r", "s", "t", " ", "3", " ", "d", "i", "s", "t", "r", "i", "c", "t", "s", " ", "i", "n", " ", "K", "e", "r", "a", "l", "a", " ", "f", "o", "r", " ", "S", "D", "G", " ", "1">>)

\* "best performing district in Gujarat for SDG 3"
Q_best_gujarat ==
    Text(<<"b", "e", "s", "t", " ", "p", "e", "r", "f", "o", "r", "m", "i", "n", "g", " ", "d", "i", "s", "t", "r", "i", "c", "t", " ", "i", "n", " ", "G", "u", "j", "a", "r", "a", "t", " ", "f", "o", "r", " ", "S", "D", "G", " ", "3">>)

\* "show top 12 districts"
Q_show_top_12 ==
    Text(<<"s", "h", "o", "w", " ", "t", "o", "p", " ", "1", "2", " ", "d", "i", "s", "t", "r", "i", "c", "t", "s">>)

\* "list all districts"
Q_list_all ==
    Text(<<"l", "i", "s", "t", " ", "a", "l", "l", " ", "d", "i", "s", "t", "r", "i", "c", "t", "s">>)

\* "districts in SDG 5"
Q_sdg_5 ==
    Text(<<"d", "i", "s", "t", "r", "i", "c", "t", "s", " ", "i", "n", " ", "S", "D", "G", " ", "5">>)

\* "Show top 7 districts of Tamil Nadu"
Q_top_7_tamil_nadu ==
    Text(<<"S", "h", "o", "w", " ", "t", "o", "p", " ", "7", " ", "d", "i", "s", "t", "r", "i", "c", "t", "s", " ", "o", "f", " ", "T", "a", "m", "i", "l", " ", "N", "a", "d", "u">>)

\* "3 worst then top 8 in UP"
Q_3_worst_top_8 ==
    Text(<<"3", " ", "w", "o", "r", "s", "t", " ", "t", "h", "e", "n", " ", "t", "o", "p", " ", "8", " ", "i", "n", " ", "U", "P">>)

\* "How is Ahmedabad doing"
Q_ahmedabad ==
    Text(<<"H", "o", "w", " ", "i", "s", " ", "A", "h", "m", "e", "d", "a", "b", "a", "d", " ", "d", "o", "i", "n", "g">>)

\* "compare 4 best  districts vs 22 worst"
Q_compare ==
    Text(<<"c", "o", "m", "p", "a", "r", "e", " ", "4", " ", "b", "e", "s", "t", " ", " ", "d", "i", "s", "t", "r", "i", "c", "t", "s", " ", "v", "s", " ", "2", "2", " ", "w", "o", "r", "s", "t">>)

\* "bottom performing group"
Q_bottom_group ==
    Text(<<"b", "o", "t", "t", "o", "m", " ", "p", "e", "r", "f", "o", "r", "m", "i", "n", "g", " ", "g", "r", "o", "u", "p">>)

\* "best district vs worst district"
Q_best_vs_worst ==
    Text(<<"b", "e", "s", "t", " ", "d", "i", "s", "t", "r", "i", "c", "t", " ", "v", "s", " ", "w", "o", "r", "s", "t", " ", "d", "i", "s", "t", "r", "i", "c", "t">>)

\* "poorest and leading"
Q_poorest_leading ==
    Text(<<"p", "o", "o", "r", "e", "s", "t", " ", "a", "n", "d", " ", "l", "e", "a", "d", "i", "n", "g">>)

\* "worst performing among top states"
Q_worst_among_top ==
    Text(<<"w", "o", "r", "s", "t", " ", "p", "e", "r", "f", "o", "r", "m", "i", "n", "g", " ", "a", "m", "o", "n", "g", " ", "t", "o", "p", " ", "s", "t", "a", "t", "e", "s">>)

Queries ==
    { Q_worst_among_top,
      Q_best_vs_worst,
      Q_poorest_leading,
      Q_worst_kerala,
      Q_best_gujarat,
      Q_show_top_12,
      Q_list_all,
      Q_sdg_5,
      Q_top_7_tamil_nadu,
      Q_3_worst_top_8,
      Q_ahmedabad,
      Q_compare,
      Q_bottom_group }

\* what the district lookup may give for a query
Districts == { Null, StrV(Text(<<"A", "h", "m", "e", "d", "a", "b", "a", "d">>)) }

\* the model's arguments for the ranking function: each of query_type, top_n
\* and state_name missing, null, empty or given
RankingArguments ==
    { DictV(<<[k |-> "sdg_goal_number", v |-> IntV(1)]>> \o q \o n \o st) :
        q \in Opt("query_type", {QT_top_performers, QT_trend, Null}),
        n \in Opt("top_n", {IntV(3)}),
        st \in Opt("state_name", { Null, StrV(<<>>),
                                   StrV(Text(<<"k", "e", "r", "a", "l", "a">>)),
                                   StrV(Text(<<"T", "a", "m", "i", "l", " ", "N", "a", "d", "u">>)),
                                   StrV(Text(<<"U", "T", "T", "A", "R", " ", "p", "r", "a", "d", "e", "s", "h">>)) }) }

\* arguments for the other functions: complete, with a required one
\* missing, and with one the collaborator does not declare
OtherArguments ==
    { DictV(<<>>),
      DictV(<<[k |-> "sdg_goal_number", v |-> IntV(3)]>>),
      DictV(<<[k |-> "district_name", v |-> StrV(Text(<<"P", "u", "n", "e">>))],
              [k |-> "sdg_goal_number", v |-> IntV(3)]>>),
      DictV(<<[k |-> "indicator_name", v |-> StrV(Seg("indicator", 24))],
              [k |-> "year", v |-> IntV(2016)]>>),
      DictV(<<[k |-> "sdg_goals", v |-> ListV(<<IntV(1), IntV(3)>>)],
              [k |-> "top_n", v |-> IntV(5)]>>),
      DictV(<<[k |-> "state1", v |-> StrV(Text(<<"G", "o", "a">>))],
              [k |-> "center_point", v |-> StrV(Text(<<"P", "u", "n", "e">>))],
              [k |-> "radius_km", v |-> IntV(50)]>>) }

UnknownNames == {"nonexistent_function", "get_weather"}

InitDisp ==
    /\ ConcOff
    /\ HistOff
    /\ SanOff
    /\ ChatOff
    /\ dp_pc = "ready"
    /\ dp_query \in Queries
    /\ dp_detected \in Districts
    /\ \/ dp_name = "get_sdg_goal_data" /\ dp_arguments \in RankingArguments
       \/ dp_name \in (CatalogNames \ {"get_sdg_goal_data"}) \cup UnknownNames
          /\ dp_arguments \in OtherArguments
          /\ dp_query = Q_sdg_5
          /\ dp_detected = Null
    /\ dp_exec = [kind |-> "none"]

Dispatch ==
    /\ dp_pc = "ready"
    /\ dp_exec' = execute_function_call(dp_name, dp_arguments, dp_query, dp_detected)
    /\ dp_pc' = "done"
    /\ UNCHANGED <<dp_query, dp_detected, dp_name, dp_arguments>>
    /\ UNCHANGED <<histVars, sanVars, chatVars, concVars>>

NextDisp == Dispatch

SpecDisp == InitDisp /\ [][NextDisp]_vars

\* the ranking function was dispatched
RankingDone == dp_pc = "done" /\ dp_name = "get_sdg_goal_data"

\* the value the collaborator is called with for a keyword
Passed(key) == Get(dp_exec.kwargs, key)

\* what the analyzer derives from the query
dp_intent == analyze_sdg_query_intent(dp_query, dp_detected)

\* the text is in title case: a letter is upper case exactly when no letter
\* comes right before it
IsTitleCased(text) ==
    \A j \in 1..Len(text) :
        IsCased(text[j]) => (IsUpper(text[j]) <=> (j = 1 \/ ~IsCased(text[j - 1])))

\* C9 as stated: each of query_type, top_n and state_name that is present in
\* the model's arguments is the value passed to the collaborator.
C9_ModelValuePassed ==
    RankingDone =>
        \A key \in {"query_type", "top_n", "state_name"} :
            Has(dp_arguments, key) => Passed(key) = Get(dp_arguments, key)

\* C9 amended: a query_type or top_n present in the model's arguments is
\* passed unchanged, whatever the analyzer derives; a state_name present and
\* not empty is passed with the same letters in title case; a state_name
\* present but null or empty gives way to the analyzer's state.
C9_ModelValueWins ==
    RankingDone =>
        /\ \A key \in {"query_type", "top_n"} :
              Has(dp_arguments, key) => Passed(key) = Get(dp_arguments, key)
        /\ (Has(dp_arguments, "state_name") /\ Truthy(Get(dp_arguments, "state_name")))
              => /\ ToLower(Passed("state_name").str) = ToLower(Get(dp_arguments, "state_name").str)
                 /\ IsTitleCased(Passed("state_name").str)
        /\ (Has(dp_arguments, "state_name") /\ ~Truthy(Get(dp_arguments, "state_name")))
              => ToLower(Str(Passed("state_name"))) = Str(dp_intent.state_name)

\* the model gives top_n = 3 and a state, the analyzer derives top_n = 7 and
\* another state, and the call is made with the model's
C9_Witness ==
    /\ RankingDone
    /\ dp_query = Q_top_7_tamil_nadu
    /\ dp_intent.top_n = IntV(7)
    /\ Get(dp_arguments, "top_n") = IntV(3)
    /\ Passed("top_n") = IntV(3)
    /\ ~Has(dp_arguments, "query_type")
    /\ Get(dp_arguments, "state_name") = StrV(Text(<<"k", "e", "r", "a", "l", "a">>))
    /\ Passed("state_name") = StrV(Text(<<"K", "e", "r", "a", "l", "a">>))

\* C10: each of query_type, top_n and state_name that the model's arguments
\* omit is passed with the value the analyzer derives from the turn's query,
\* and a state name passed, from either source, is in title case; the query
\* "Worst 3 districts in Kerala for SDG 1" (no district found in it) with
\* arguments {sdg_goal_number: 1} gives bottom_performers, 3, Kerala.
C10_OmittedFromAnalyzer ==
    RankingDone =>
        /\ \A key \in {"query_type", "top_n"} :
              ~Has(dp_arguments, key) => Passed(key) = dp_intent[key]
        /\ ~Has(dp_arguments, "state_name") =>
              ToLower(Str(Passed("state_name"))) = Str(dp_intent.state_name)
        /\ Passed("state_name") # Null =>
              /\ Passed("state_name").t = "str"
              /\ IsTitleCased(Passed("state_name").str)
        /\ (/\ dp_query = Q_worst_kerala
            /\ dp_detected = Null
            /\ Keys(dp_arguments) = {"sdg_goal_number"})
              => /\ Passed("query_type") = QT_bottom_performers
                 /\ Passed("top_n") = IntV(3)
                 /\ Passed("state_name") = StrV(Text(<<"K", "e", "r", "a", "l", "a">>))
                 /\ Passed("sdg_goal_number") = IntV(1)

\* the example's call
C10_Witness ==
    /\ RankingDone
    /\ dp_query = Q_worst_kerala
    /\ dp_detected = Null
    /\ Keys(dp_arguments) = {"sdg_goal_number"}
    /\ Passed("query_type") = QT_bottom_performers
    /\ Passed("state_name") = StrV(Text(<<"K", "e", "r", "a", "l", "a">>))

\* ------------------------------------------------------ the /chatbot/ turn

\* turns of one run
MaxTurns == 2

ResponseTruncated == Seg("... [Response truncated for conversation history]", 49)

\* the answer stored as it came, whatever its length
truncated_response_never(final_response) == final_response

\* lines 1160-1163: the copy of a synthesized answer that is stored
truncated_response(final_response) ==
    IF StrLen(final_response) > 2500
    THEN Prefix(final_response, 2000) \o ResponseTruncated
    ELSE final_response

\* lines 1196-1203: the except clauses of the handler, in their order.  An
\* HTTPException raised inside the try block is an Exception and is caught by
\* the last clause.
HttpError(exc) ==
    CASE exc = "JSONDecodeError" ->
            [kind |-> "error", status |-> 400, detail |-> "Invalid JSON format", exc |-> exc]
      [] exc = "OpenAIError" ->
            [kind |-> "error", status |-> 500, detail |-> "OpenAI API error", exc |-> exc]
      [] exc = "psycopg2.Error" ->
            [kind |-> "error", status |-> 500, detail |-> "Database error", exc |-> exc]
      [] OTHER ->
            [kind |-> "error", status |-> 500, detail |-> "Unexpected error", exc |-> exc]

\* the arguments text of a tool call that json.loads rejects
Malformed == [t |-> "malformed"]

\* a tool call of LLM call #1; its arguments text is held as the value it
\* parses to, or as Malformed
ToolCall(id, name, arguments) == [id |-> id, name |-> name, arguments |-> arguments]

\* lines 1066-1072
CollectBoundaries(boundaries_so_far, result) ==
    IF IsDict(result)
    THEN LET boundaries == IF Truthy(Get(result, "boundary"))
                           THEN Get(result, "boundary")
                           ELSE Get(result, "boundary_data")
         IN IF Truthy(boundaries)
            THEN IF IsList(boundaries)
                 THEN boundaries_so_far \o boundaries.list
                 ELSE Append(boundaries_so_far, boundaries)
            ELSE boundaries_so_far
    ELSE boundaries_so_far

\* lines 1074-1078
FunctionResult(tool_call, result) ==
    [function |-> tool_call.name, arguments |-> tool_call.arguments, result |-> result]

\* response.choices[0].message of a reply that calls tools
AssistantToolCallMessage(calls) == [role |-> "assistant", content |-> <<>>, tool_calls |-> calls]

\* lines 1146-1150
ToolMessage(tool_call, function_result) ==
    [role |-> "tool", tool_call_id |-> tool_call.id, content |-> ToolContent(function_result)]

\* the tool messages built from the last result back to the first
RECURSIVE ToolMessagesLastFirst(_, _)
ToolMessagesLastFirst(calls, results) ==
    IF calls = <<>> THEN <<>>
    ELSE ToolMessagesLastFirst(Tail(calls), Tail(results))
         \o <<ToolMessage(calls[1], results[1].result)>>

\* lines 1084-1150: one tool message per tool call, in the calls' order
RECURSIVE ToolMessages(_, _)
ToolMessages(calls, results) ==
    IF calls = <<>> THEN <<>>
    ELSE <<ToolMessage(calls[1], results[1].result)>> \o ToolMessages(Tail(calls), Tail(results))

\* lines 1081-1150
MessagesWithResults(h, calls, results) ==
    h \o <<AssistantToolCallMessage(calls)>> \o ToolMessages(calls, results)

\* lines 1169-1176
MapType(results) ==
    IF Len(results) = 1 /\ IsDict(results[1].result) /\ Has(results[1].result, "map_type")
    THEN Get(results[1].result, "map_type")
    ELSE StrV(Seg("sdg_analysis", 12))

\* line 1182
RECURSIVE FunctionCalls(_)
FunctionCalls(results) ==
    IF results = <<>> THEN <<>>
    ELSE <<[function |-> results[1].function, arguments |-> results[1].arguments]>>
         \o FunctionCalls(Tail(results))

\* lines 1179-1185
ToolPathBody(final_response, results, boundaries) ==
    [response |-> final_response,
     map_type |-> MapType(results),
     function_calls |-> FunctionCalls(results),
     data |-> results,
     boundary |-> boundaries]

\* line 1194
DirectBody(final_response) == [response |-> final_response]

Body(b) == [kind |-> "body", status |-> 200, body |-> b]

\* a query with a long pasted text: next to the system message it fills the
\* budget with nothing to spare
Q_long == Q_list_all \o Seg("pasted text", 201282)

ChatQueries == { Q_worst_kerala, Q_long }

\* what the model may answer: a short text, and one over the 2500 characters
\* of the storage cut
Answers == { Seg("answer", 200), Seg("answer", 3000) }

\* what a collaborator may return
R_ranking ==
    DictV(<< [k |-> "query_type", v |-> QT_top_performers],
             [k |-> "boundary", v |-> ListV(<<Geo(1), Geo(2)>>)],
             [k |-> "data", v |-> ListV(Rows(LongList))],
             [k |-> "map_type", v |-> StrV(Seg("sdg_ranking", 11))] >>)

R_trend ==
    DictV(<< [k |-> "query_type", v |-> QT_trend],
             [k |-> "boundary_data", v |-> ListV(<<Geo(4)>>)],
             [k |-> "enhanced_analysis", v |-> StrV(Seg("analysis", 500))],
             [k |-> "data", v |-> DictV(<< [k |-> "top_performers", v |-> ListV(Rows(ShortList + 1))],
                                            [k |-> "bottom_performers", v |-> ListV(Rows(ShortList - 1))] >>)] >>)

R_district ==
    DictV(<< [k |-> "boundary", v |-> Geo(3)],
             [k |-> "boundary_data", v |-> ListV(<<Geo(4)>>)],
             [k |-> "data", v |-> ListV(Rows(ShortList))] >>)

R_error == ErrorResult(Seg("Error in SDG goal data routing: ", 32) \o Seg("exception text", 40))

R_rows == ListV(Rows(ShortList))

CollaboratorResults == { R_ranking, R_trend, R_district, R_error, R_rows }

A_goal_1 == DictV(<<[k |-> "sdg_goal_number", v |-> IntV(1)]>>)

\* the tool-call lists LLM call #1 may return: one ranking call, two calls,
\* a name outside the catalog (alone and before a ranking call), a call
\* whose arguments text is no JSON, a call that omits a required argument
\* and a call with an argument the collaborator does not declare
ToolCallLists ==
    { << ToolCall(1, "get_sdg_goal_data", A_goal_1) >>,
      << ToolCall(1, "get_indicators_by_sdg_goal", A_goal_1),
         ToolCall(2, "get_sdg_goal_data", Put(A_goal_1, "top_n", IntV(3))) >>,
      << ToolCall(1, "nonexistent_function", DictV(<<>>)) >>,
      << ToolCall(1, "get_weather", DictV(<<>>)),
         ToolCall(2, "get_sdg_goal_data", A_goal_1) >>,
      << ToolCall(1, "get_sdg_goal_data", A_goal_1),
         ToolCall(2, "get_sdg_goal_classification", Malformed) >>,
      << ToolCall(1, "get_indicators_by_sdg_goal", DictV(<<>>)) >>,
      << ToolCall(1, "get_state_wise_summary", Put(A_goal_1, "state_name", StrV(Text(<<"G", "o", "a">>)))) >> }

InitChat ==
    /\ ConcOff
    /\ HistOff
    /\ SanOff
    /\ DispOff
    /\ pc = "idle"
    /\ session_history = <<>>
    /\ turns = 0
    /\ turn_start = <<>>
    /\ request_query = <<>>
    /\ tool_calls = <<>>
    /\ function_results = <<>>
    /\ all_boundaries = <<>>
    /\ messages_with_results = <<>>
    /\ returned = [kind |-> "none"]
    /\ steps = <<>>

\* one step of a turn: the user message stored, LLM call #1 made, LLM call #1
\* returned, the i-th tool call dispatched with a result, the dispatch of the
\* i-th tool call raised, LLM call #2 made, LLM call #2 returned, the answer
\* stored
Step(e, i) == [e |-> e, i |-> i]

\* what a new turn starts from
TurnBegins(query) ==
    /\ pc = "idle"
    /\ turns < MaxTurns
    /\ turns' = turns + 1
    /\ turn_start' = session_history
    /\ request_query' = query
    /\ tool_calls' = <<>>
    /\ function_results' = <<>>
    /\ all_boundaries' = <<>>
    /\ messages_with_results' = <<>>

\* the turn ends with an exception, which the except clauses turn into an
\* HTTP error
Raise(exc) ==
    /\ returned' = HttpError(exc)
    /\ pc' = "idle"

\* the connection check made, and failing, after the user message is stored
EntryCheckAfterStore ==
    \E query \in ChatQueries :
        /\ TurnBegins(query)
        /\ Raise("HTTPException")
        /\ steps' = <<Step("user stored", 0)>>
        /\ session_history' =
              manage_conversation_history(session_history, [role |-> "user", content |-> query])
        /\ UNCHANGED <<histVars, sanVars, dispVars, concVars>>

\* lines 281-287: the connection check fails
EntryCheckFails ==
    \E query \in ChatQueries :
        /\ TurnBegins(query)
        /\ Raise("HTTPException")
        /\ steps' = <<>>
        /\ UNCHANGED session_history
        /\ UNCHANGED <<histVars, sanVars, dispVars, concVars>>

\* lines 281-298 and 460: the check passes, the user message goes into the
\* session history and LLM call #1 is made
Receive ==
    \E query \in ChatQueries :
        /\ TurnBegins(query)
        /\ session_history' =
              manage_conversation_history(session_history, [role |-> "user", content |-> query])
        /\ returned' = [kind |-> "none"]
        /\ pc' = "llm1"
        /\ steps' = <<Step("user stored", 0), Step("llm1 called", 0)>>
        /\ UNCHANGED <<histVars, sanVars, dispVars, concVars>>

\* line 460: LLM call #1 raises
LLM1Fails ==
    /\ pc = "llm1"
    /\ Raise("OpenAIError")
    /\ UNCHANGED steps
    /\ UNCHANGED <<session_history, turns, turn_start, request_query, tool_calls,
                   function_results, all_boundaries, messages_with_results>>
    /\ UNCHANGED <<histVars, sanVars, dispVars, concVars>>

\* the direct answer stored in the cut form of the tool-call path
LLM1AnswersCut ==
    \E final_response \in Answers :
        /\ pc = "llm1"
        /\ session_history' =
              manage_conversation_history(session_history,
                  [role |-> "assistant", content |-> truncated_response(final_response)])
        /\ returned' = Body(DirectBody(final_response))
        /\ pc' = "idle"
        /\ steps' = steps \o <<Step("llm1 returned", 0), Step("answer stored", 0)>>
        /\ UNCHANGED <<turns, turn_start, request_query, tool_calls,
                       function_results, all_boundaries, messages_with_results>>
        /\ UNCHANGED <<histVars, sanVars, dispVars, concVars>>

\* lines 1187-1194: LLM call #1 answers with no tool call
LLM1Answers ==
    \E final_response \in Answers :
        /\ pc = "llm1"
        /\ session_history' =
              manage_conversation_history(session_history,
                                          [role |-> "assistant", content |-> final_response])
        /\ returned' = Body(DirectBody(final_response))
        /\ pc' = "idle"
        /\ steps' = steps \o <<Step("llm1 returned", 0), Step("answer stored", 0)>>
        /\ UNCHANGED <<turns, turn_start, request_query, tool_calls,
                       function_results, all_boundaries, messages_with_results>>
        /\ UNCHANGED <<histVars, sanVars, dispVars, concVars>>

\* lines 1050-1053: LLM call #1 returns tool calls
LLM1CallsTools ==
    \E calls \in ToolCallLists :
        /\ pc = "llm1"
        /\ tool_calls' = calls
        /\ pc' = "tools"
        /\ steps' = Append(steps, Step("llm1 returned", 0))
        /\ UNCHANGED <<session_history, turns, turn_start, request_query,
                       function_results, all_boundaries, messages_with_results, returned>>
        /\ UNCHANGED <<histVars, sanVars, dispVars, concVars>>

\* the tool call the loop is at
InLoop == pc = "tools" /\ Len(function_results) < Len(tool_calls)

tool_call == tool_calls[Len(function_results) + 1]

\* lines 1066-1078: the result is recorded and its boundaries collected
Record(result) ==
    /\ all_boundaries' = CollectBoundaries(all_boundaries, result)
    /\ function_results' = Append(function_results, FunctionResult(tool_call, result))
    /\ steps' = Append(steps, Step("dispatched", Len(function_results) + 1))
    /\ UNCHANGED <<pc, session_history, turns, turn_start, request_query, tool_calls,
                   messages_with_results, returned>>
    /\ UNCHANGED <<histVars, sanVars, dispVars, concVars>>

\* arguments that are no JSON give the call an error result, and the loop
\* goes on
ArgumentsMalformedSkipped ==
    /\ InLoop
    /\ tool_call.arguments = Malformed
    /\ Record(ErrorResult(Seg("Invalid JSON format", 19)))

\* line 1058: json.loads rejects the arguments text
ArgumentsMalformed ==
    /\ InLoop
    /\ tool_call.arguments = Malformed
    /\ Raise("JSONDecodeError")
    /\ UNCHANGED steps
    /\ UNCHANGED <<session_history, turns, turn_start, request_query, tool_calls,
                   function_results, all_boundaries, messages_with_results>>
    /\ UNCHANGED <<histVars, sanVars, dispVars, concVars>>

\* line 1063: execute_function_call raises
DispatchRaises ==
    \E detected_district \in Districts :
        LET exec == execute_function_call(tool_call.name, tool_call.arguments,
                                          request_query, detected_district)
        IN /\ InLoop
           /\ tool_call.arguments # Malformed
           /\ exec.kind = "raise"
           /\ Raise(exec.exc)
           /\ steps' = Append(steps, Step("dispatch raised", Len(function_results) + 1))
           /\ UNCHANGED <<session_history, turns, turn_start, request_query, tool_calls,
                          function_results, all_boundaries, messages_with_results>>
           /\ UNCHANGED <<histVars, sanVars, dispVars, concVars>>

\* line 1063: execute_function_call returns a result of its own
DispatchReturns ==
    \E detected_district \in Districts :
        LET exec == execute_function_call(tool_call.name, tool_call.arguments,
                                          request_query, detected_district)
        IN /\ InLoop
           /\ tool_call.arguments # Malformed
           /\ exec.kind = "return"
           /\ Record(exec.result)

\* line 1063: execute_function_call calls a collaborator, which returns
DispatchCalls ==
    \E detected_district \in Districts, result \in CollaboratorResults :
        LET exec == execute_function_call(tool_call.name, tool_call.arguments,
                                          request_query, detected_district)
        IN /\ InLoop
           /\ tool_call.arguments # Malformed
           /\ exec.kind = "call"
           /\ Record(result)

\* LLM call #2 made as soon as one result is in, with the results so far
CallLLM2Early ==
    /\ pc = "tools"
    /\ function_results # <<>>
    /\ messages_with_results' =
          MessagesWithResults(session_history,
                              SubSeq(tool_calls, 1, Len(function_results)), function_results)
    /\ pc' = "llm2"
    /\ steps' = Append(steps, Step("llm2 called", 0))
    /\ UNCHANGED <<session_history, turns, turn_start, request_query, tool_calls,
                   function_results, all_boundaries, returned>>
    /\ UNCHANGED <<histVars, sanVars, dispVars, concVars>>

\* lines 1080-1156: the loop is over; the message list is built and LLM call
\* #2 is made with it
\* the sanitizer working on the results themselves, not on copies
RECURSIVE Cleaned(_)
Cleaned(results) ==
    IF results = <<>> THEN <<>>
    ELSE <<[results[1] EXCEPT !.result = CleanResult(@)]>> \o Cleaned(Tail(results))

CallLLM2OnResults ==
    /\ pc = "tools"
    /\ Len(function_results) = Len(tool_calls)
    /\ messages_with_results' = MessagesWithResults(session_history, tool_calls, function_results)
    /\ function_results' = Cleaned(function_results)
    /\ pc' = "llm2"
    /\ steps' = Append(steps, Step("llm2 called", 0))
    /\ UNCHANGED <<session_history, turns, turn_start, request_query, tool_calls,
                   all_boundaries, returned>>
    /\ UNCHANGED <<histVars, sanVars, dispVars, concVars>>

\* the tool-call message and the tool messages appended to the session
\* history itself
CallLLM2InPlace ==
    /\ pc = "tools"
    /\ Len(function_results) = Len(tool_calls)
    /\ messages_with_results' = MessagesWithResults(session_history, tool_calls, function_results)
    /\ session_history' = messages_with_results'
    /\ pc' = "llm2"
    /\ steps' = Append(steps, Step("llm2 called", 0))
    /\ UNCHANGED <<turns, turn_start, request_query, tool_calls,
                   function_results, all_boundaries, returned>>
    /\ UNCHANGED <<histVars, sanVars, dispVars, concVars>>

CallLLM2 ==
    /\ pc = "tools"
    /\ Len(function_results) = Len(tool_calls)
    /\ messages_with_results' = MessagesWithResults(session_history, tool_calls, function_results)
    /\ pc' = "llm2"
    /\ steps' = Append(steps, Step("llm2 called", 0))
    /\ UNCHANGED <<session_history, turns, turn_start, request_query, tool_calls,
                   function_results, all_boundaries, returned>>
    /\ UNCHANGED <<histVars, sanVars, dispVars, concVars>>

\* line 1153: LLM call #2 raises
LLM2Fails ==
    /\ pc = "llm2"
    /\ Raise("OpenAIError")
    /\ UNCHANGED steps
    /\ UNCHANGED <<session_history, turns, turn_start, request_query, tool_calls,
                   function_results, all_boundaries, messages_with_results>>
    /\ UNCHANGED <<histVars, sanVars, dispVars, concVars>>

\* lines 1158-1185: LLM call #2 answers; the answer is stored and returned
LLM2Answers ==
    \E final_response \in Answers :
        /\ pc = "llm2"
        /\ session_history' =
              manage_conversation_history(session_history,
                  [role |-> "assistant", content |-> truncated_response(final_response)])
        /\ returned' = Body(ToolPathBody(final_response, function_results, all_boundaries))
        /\ pc' = "idle"
        /\ steps' = steps \o <<Step("llm2 returned", 0), Step("answer stored", 0)>>
        /\ UNCHANGED <<turns, turn_start, request_query, tool_calls,
                       function_results, all_boundaries, messages_with_results>>
        /\ UNCHANGED <<histVars, sanVars, dispVars, concVars>>

Next ==
    \/ EntryCheckFails
    \/ Receive
    \/ LLM1Fails
    \/ LLM1Answers
    \/ LLM1CallsTools
    \/ ArgumentsMalformed
    \/ DispatchRaises
    \/ DispatchReturns
    \/ DispatchCalls
    \/ CallLLM2
    \/ LLM2Fails
    \/ LLM2Answers

Spec == InitChat /\ [][Next]_vars

\* the history manager alone and the chatbot turns, in one specification
SpecHistChat == (InitHist \/ InitChat) /\ [][NextHist \/ Next]_vars

\* the turn is over
TurnEnded == pc = "idle" /\ turns >= 1

\* the turn ended with the error of the connection check at its entry
FailedEntryCheck == TurnEnded /\ returned.kind = "error" /\ returned.exc = "HTTPException"

\* the turn ended with an error raised after the entry check
FailedAfterEntry == TurnEnded /\ returned.kind = "error" /\ returned.exc # "HTTPException"

\* the turn ended with an answer on the tool-call path
AnsweredWithTools == TurnEnded /\ returned.kind = "body" /\ "data" \in DOMAIN returned.body

\* C1 as stated: after a turn that ends in an error raised after the entry
\* check (LLM call #1 fails, arguments are malformed, dispatch raises, LLM
\* call #2 fails) the session history equals the history before the turn.
C1_FailedTurnLeavesHistory ==
    FailedAfterEntry => session_history = turn_start


\* C2 as stated: the history returned by manage_conversation_history is
\* non-empty with a system message first, and so is the session history after
\* any sequence of turns.
C2_SystemFirstAlways ==
    /\ mh_pc = "done" => (mh_out # <<>> /\ mh_out[1].role = "system")
    /\ TurnEnded => (session_history # <<>> /\ session_history[1].role = "system")

\* C2 amended: the history returned by manage_conversation_history is
\* non-empty with a system message first; the session history is empty as long
\* as no turn has passed the entry check (it starts empty, and a turn that
\* fails the check does not touch it) and from the first turn that passes the
\* check on it is non-empty with a system message first.
C2_SystemFirstOnceEntered ==
    /\ mh_pc = "done" => (mh_out # <<>> /\ mh_out[1].role = "system")
    /\ session_history # <<>> => session_history[1].role = "system"
    /\ (session_history = <<>> /\ pc # "off") =>
          /\ pc = "idle"
          /\ turn_start = <<>>
          /\ (turns = 0 \/ FailedEntryCheck)

\* a first turn failed the entry check and left the session history empty;
\* the second one passed it and ended with the system message first
C2_Witness ==
    /\ TurnEnded
    /\ turns = 2
    /\ turn_start = <<>>
    /\ returned.kind = "body"
    /\ Len(session_history) = 3
    /\ session_history[1] = SYSTEM_MESSAGE
    /\ session_history[2].role = "user"

\* the tool message built for the i-th tool call
ToolMessageOf(i) == messages_with_results[Len(messages_with_results) - Len(tool_calls) + i]

\* the text has a geometry in it, or the name of a boundary key
ShowsBoundary(text) ==
    \E j \in 1..Len(text) : text[j].s \in {"geometry", "boundary", "boundary_data"}

\* the geometries under a result's top-level boundary keys
RECURSIVE Range(_)
Range(q) == IF q = <<>> THEN {} ELSE {q[1]} \cup Range(Tail(q))

TopLevelGeometries(result) ==
    UNION { IF IsList(Get(result, key)) THEN Range(Get(result, key).list)
            ELSE IF Get(result, key).t = "geo" THEN {Get(result, key)}
            ELSE {} : key \in {"boundary", "boundary_data"} }

IsErrorResult(result) == IsDict(result) /\ Has(result, "error")

\* the stored form of an answer: as truncated_response leaves it, or cut
\* again by the history manager's final step
StoredAs(message, final_response) ==
    /\ message.role = "assistant"
    /\ \/ message.content = truncated_response(final_response)
       \/ message.content = Prefix(truncated_response(final_response), 800) \o MessageTruncated

\* C8: a tool call whose name is outside the catalog gets the result
\* {"error": "Unknown function: <name>"} and never ends the turn with an
\* exception; for it, and for every result that is an error mapping, a tool
\* message with the call's id and the serialized error is in the message list
\* of LLM call #2, and when LLM call #2 answers the answer is the last message
\* of the session history.
C8_UnknownFunctionContinues ==
    /\ \A i \in 1..Len(function_results) :
          function_results[i].function \notin CatalogNames =>
              function_results[i].result =
                  ErrorResult(Seg("Unknown function: ", 18)
                              \o Seg(function_results[i].function,
                                     NameChars(function_results[i].function)))
    /\ (FailedAfterEntry /\ returned.exc \notin {"OpenAIError", "JSONDecodeError"}) =>
          tool_calls[Len(function_results) + 1].name \in CatalogNames
    /\ messages_with_results # <<>> =>
          \A i \in 1..Len(tool_calls) :
              IsErrorResult(function_results[i].result) =>
                  /\ ToolMessageOf(i).role = "tool"
                  /\ ToolMessageOf(i).tool_call_id = tool_calls[i].id
                  /\ ToolMessageOf(i).content = Json(function_results[i].result)
    /\ AnsweredWithTools =>
          StoredAs(session_history[Len(session_history)], returned.body.response)

\* a turn whose only tool call names no function of the catalog and that
\* ended with the synthesized answer stored
C8_Witness ==
    /\ AnsweredWithTools
    /\ Len(tool_calls) = 1
    /\ tool_calls[1].name = "nonexistent_function"
    /\ IsErrorResult(function_results[1].result)
    /\ ToolMessageOf(1).content = Json(function_results[1].result)
    /\ session_history[Len(session_history)].role = "assistant"
    /\ Len(session_history) = Len(turn_start) + 2

\* ------------------------------------------------- claims on the analyzer

dp_lower == ToLower(dp_query)

\* the detectors of the analyzer, on the dispatched query
FiredBestWorst == ContainsAny(dp_lower, best_worst_phrases)

FiredDistrict == dp_detected # Null

FiredComparison == ContainsAny(dp_lower, ranking_both)

FiredBottom == ContainsAny(dp_lower, ranking_bottom)

FiredTop == ContainsAny(dp_lower, ranking_top)

FiredListing == ContainsAny(dp_lower, listing_words)

\* C11: the analyzer's query_type is that of the highest detector that fired,
\* in the order best/worst phrase (best_district or worst_district), detected
\* district (individual_district), comparison keyword (trend), bottom keyword
\* (bottom_performers), top keyword, listing word, default (top_performers).
C11_Precedence ==
    RankingDone =>
        LET query_type == dp_intent.query_type
        IN /\ FiredBestWorst => query_type \in {QT_best_district, QT_worst_district}
           /\ (~FiredBestWorst /\ FiredDistrict) => query_type = QT_individual_district
           /\ (~FiredBestWorst /\ ~FiredDistrict /\ FiredComparison) => query_type = QT_trend
           /\ (~FiredBestWorst /\ ~FiredDistrict /\ ~FiredComparison /\ FiredBottom)
                 => query_type = QT_bottom_performers
           /\ (~FiredBestWorst /\ ~FiredDistrict /\ ~FiredComparison /\ ~FiredBottom)
                 => query_type = QT_top_performers

\* a best/worst phrase, a detected district, a comparison keyword, a bottom
\* and a top keyword in one query: the phrase decides
C11_Witness ==
    /\ RankingDone
    /\ dp_query = Q_best_vs_worst
    /\ FiredBestWorst /\ FiredDistrict /\ FiredComparison /\ FiredBottom /\ FiredTop
    /\ ~Has(dp_arguments, "query_type")
    /\ Passed("query_type") = QT_best_district

\* the patterns of the list that match the dispatched query, by their place
\* in the list
MatchingPatterns == {j \in 1..Len(number_patterns) : Matches(dp_lower, number_patterns[j])}

\* C12: top_n is the number of the first pattern of the list that matches the
\* lowercased query (the list's order decides, not the place in the text);
\* when none matches it is 10 if the query contains "many", "all" or "list"
\* and 5 otherwise.  "show top 12 districts" gives 12, "list all districts"
\* 10, "districts in SDG 5" 5.
C12_TopN ==
    RankingDone =>
        LET top_n == dp_intent.top_n
        IN /\ MatchingPatterns # {} =>
                 LET first == CHOOSE j \in MatchingPatterns : \A k \in MatchingPatterns : j <= k
                 IN top_n = IntV(Group1(dp_lower, number_patterns[first]))
           /\ MatchingPatterns = {} =>
                 top_n = (IF \E j \in 1..Len(many_words) : Contains(dp_lower, many_words[j])
                          THEN IntV(10) ELSE IntV(5))
           /\ dp_query = Q_show_top_12 => top_n = IntV(12)
           /\ dp_query = Q_list_all => top_n = IntV(10)
           /\ dp_query = Q_sdg_5 => top_n = IntV(5)
           /\ dp_query = Q_3_worst_top_8 => top_n = IntV(8)
           /\ dp_query = Q_compare => top_n = IntV(4)

\* "3 worst then top 8 in UP": two patterns match, the later one in the text
\* is the earlier one in the list, and it decides
C12_Witness ==
    /\ RankingDone
    /\ dp_query = Q_3_worst_top_8
    /\ Cardinality(MatchingPatterns) = 2
    /\ ~Has(dp_arguments, "top_n")
    /\ Passed("top_n") = IntV(8)

\* C13: a turn whose connection check fails ends with an error with the
\* session history as it was before the turn, and with no step taken: the user
\* message is not stored, LLM call #1 is not made and no tool is dispatched.
C13_EntryCheckFailsFast ==
    FailedEntryCheck =>
        /\ returned.status = 500
        /\ session_history = turn_start
        /\ steps = <<>>
        /\ tool_calls = <<>>
        /\ function_results = <<>>
        /\ messages_with_results = <<>>

\* a second turn fails the check and leaves the first turn's history as it was
C13_Witness ==
    /\ FailedEntryCheck
    /\ turns = 2
    /\ Len(turn_start) = 3
    /\ session_history = turn_start
    /\ steps = <<>>

\* C14 as stated: every failure reaches the caller under its own category: a
\* failed connection check as a database connection error, a failed LLM call
\* as an OpenAI API error, and the generic unexpected error only for other
\* exceptions.
C14_OwnCategory ==
    (TurnEnded /\ returned.kind = "error") =>
        /\ FailedEntryCheck => returned.detail = "Database connection error"
        /\ returned.exc = "OpenAIError" => returned.detail = "OpenAI API error"
        /\ returned.detail = "Unexpected error" => ~FailedEntryCheck /\ returned.exc # "OpenAIError"

\* the tool call with arguments that are no JSON, if the turn has one (0 if not)
FirstMalformed ==
    IF \E j \in 1..Len(tool_calls) : tool_calls[j].arguments = Malformed
    THEN CHOOSE j \in 1..Len(tool_calls) :
            /\ tool_calls[j].arguments = Malformed
            /\ \A k \in 1..(j - 1) : tool_calls[k].arguments # Malformed
    ELSE 0

\* the turn has taken a step of this kind
Took(e) == \E j \in 1..Len(steps) : steps[j].e = e

\* C15: when the arguments of a tool call are no JSON the turn ends with
\* status 400 at that call: only the calls before it are dispatched, no tool
\* message is built and LLM call #2 is not made.
C15_MalformedAbortsTurn ==
    /\ FirstMalformed > 0 =>
          /\ Len(function_results) < FirstMalformed
          /\ \A j \in 1..Len(steps) : steps[j].e = "dispatched" => steps[j].i < FirstMalformed
          /\ messages_with_results = <<>>
          /\ ~Took("llm2 called")
          /\ pc \in {"tools", "idle"}
          /\ (TurnEnded /\ returned.kind = "error" /\ Len(function_results) = FirstMalformed - 1)
                => (returned.status = 400 /\ returned.detail = "Invalid JSON format")
    /\ (TurnEnded /\ returned.kind = "error" /\ returned.exc = "JSONDecodeError")
          => (FirstMalformed = Len(function_results) + 1 /\ returned.status = 400)

\* the second tool call's arguments are no JSON: the first call was
\* dispatched, the turn ended with status 400
C15_Witness ==
    /\ TurnEnded
    /\ FirstMalformed = 2
    /\ Len(function_results) = 1
    /\ returned.kind = "error"
    /\ returned.status = 400
    /\ messages_with_results = <<>>

\* the place of the first step of this kind and number (0 if there is none)
PlaceOf(e, i) ==
    IF \E j \in 1..Len(steps) : steps[j] = Step(e, i)
    THEN CHOOSE j \in 1..Len(steps) : steps[j] = Step(e, i)
    ELSE 0

\* C16: in a turn LLM call #1 has returned before any tool is dispatched, the
\* tools are dispatched one after the other in the order of the tool calls,
\* LLM call #2 is made only when every tool call has its result, and on the
\* tool-call path the answer is stored only after LLM call #2 has returned.
C16_StepsInOrder ==
    /\ \A j \in 1..Len(steps) :
          /\ steps[j].e \in {"dispatched", "dispatch raised"} =>
                /\ PlaceOf("llm1 returned", 0) \in 1..(j - 1)
                /\ steps[j - 1] = (IF steps[j].i = 1 THEN Step("llm1 returned", 0)
                                   ELSE Step("dispatched", steps[j].i - 1))
                /\ steps[j].i <= Len(tool_calls)
          /\ steps[j].e = "llm2 called" =>
                /\ Len(tool_calls) >= 1
                /\ \A i \in 1..Len(tool_calls) : PlaceOf("dispatched", i) \in 1..(j - 1)
                /\ steps[j - 1] = Step("dispatched", Len(tool_calls))
          /\ steps[j].e = "llm2 returned" => steps[j - 1] = Step("llm2 called", 0)
          /\ (steps[j].e = "answer stored" /\ tool_calls # <<>>) =>
                steps[j - 1] = Step("llm2 returned", 0)
          /\ steps[j].e = "answer stored" => j = Len(steps)
    /\ Len(function_results) = Cardinality({j \in 1..Len(steps) : steps[j].e = "dispatched"})

\* a turn of two tool calls, complete
C16_Witness ==
    /\ AnsweredWithTools
    /\ Len(tool_calls) = 2
    /\ steps = << Step("user stored", 0), Step("llm1 called", 0), Step("llm1 returned", 0),
                  Step("dispatched", 1), Step("dispatched", 2),
                  Step("llm2 called", 0), Step("llm2 returned", 0), Step("answer stored", 0) >>

\* ------------------------------------------- several requests in flight

\* requests sent to /chatbot/ before any of them is handled
NumRequests == 2

Requests == 1..NumRequests

\* the positions at which the handler gives the event loop back while it
\* waits: chatbot is a coroutine (line 280) with no await in its body, and
\* its OpenAI client and database calls block the thread
AwaitPoints == {}

\* the handler of each request works on a list of its own
session_per_request(r) == <<>>

\* line 291: session = session_store, the one object of the process
session(r) == session_history

\* the messages of request r
UserMessageOf(r) == [role |-> "user", content |-> SegI("query", r, 40)]

AnswersOf(r) == {SegI("answer", r, 200), SegI("answer", r, 3000)}

chatLocals == <<pc, turns, turn_start, request_query, tool_calls, function_results,
                all_boundaries, messages_with_results, returned, steps>>

InitConc ==
    /\ HistOff
    /\ SanOff
    /\ DispOff
    /\ ChatOff
    /\ running = 0
    /\ co = [r \in Requests |-> [pc |-> "sent", seen |-> <<>>]]

\* who holds the thread once request r has reached this position
Holder(point, r) == IF point \in AwaitPoints THEN 0 ELSE r

\* request r's handler is at this position and is the one to go on
At(r, point) == co[r].pc = point /\ running = Holder(point, r)

\* the handler of request r ends
CoEnds(r, how) ==
    /\ co' = [co EXCEPT ![r].pc = how]
    /\ running' = 0

\* lines 281-287: the event loop takes request r up; the connection check fails
CoEntryCheckFails(r) ==
    /\ running = 0
    /\ co[r].pc = "sent"
    /\ CoEnds(r, "rejected")
    /\ UNCHANGED session_history
    /\ UNCHANGED <<histVars, sanVars, dispVars, chatLocals>>

\* lines 281-298 and 460: the event loop takes request r up; its user message
\* goes into the session history and LLM call #1 is made with that history
CoReceive(r) ==
    /\ running = 0
    /\ co[r].pc = "sent"
    /\ session_history' = manage_conversation_history(session(r), UserMessageOf(r))
    /\ co' = [co EXCEPT ![r].pc = "llm1", ![r].seen = Append(@, session_history')]
    /\ running' = Holder("llm1", r)
    /\ UNCHANGED <<histVars, sanVars, dispVars, chatLocals>>

\* lines 460-1078: LLM call #1, or the tool-call loop after it, raises
CoLLM1Fails(r) ==
    /\ At(r, "llm1")
    /\ CoEnds(r, "failed")
    /\ UNCHANGED session_history
    /\ UNCHANGED <<histVars, sanVars, dispVars, chatLocals>>

\* lines 1187-1194: LLM call #1 answers without tool calls
CoLLM1Answers(r) ==
    \E final_response \in AnswersOf(r) :
        /\ At(r, "llm1")
        /\ session_history' = manage_conversation_history(session(r),
                                  [role |-> "assistant", content |-> final_response])
        /\ CoEnds(r, "done")
        /\ UNCHANGED <<histVars, sanVars, dispVars, chatLocals>>

\* lines 1050-1152: LLM call #1 asks for tools; the loop runs and LLM call #2
\* is made with the session history, followed by the tool messages
CoCallLLM2(r) ==
    /\ At(r, "llm1")
    /\ co' = [co EXCEPT ![r].pc = "llm2", ![r].seen = Append(@, session(r))]
    /\ running' = Holder("llm2", r)
    /\ UNCHANGED session_history
    /\ UNCHANGED <<histVars, sanVars, dispVars, chatLocals>>

\* line 1152: LLM call #2 raises
CoLLM2Fails(r) ==
    /\ At(r, "llm2")
    /\ CoEnds(r, "failed")
    /\ UNCHANGED session_history
    /\ UNCHANGED <<histVars, sanVars, dispVars, chatLocals>>

\* lines 1152-1185: LLM call #2 answers
CoLLM2Answers(r) ==
    \E final_response \in AnswersOf(r) :
        /\ At(r, "llm2")
        /\ session_history' = manage_conversation_history(session(r),
                  [role |-> "assistant", content |-> truncated_response(final_response)])
        /\ CoEnds(r, "done")
        /\ UNCHANGED <<histVars, sanVars, dispVars, chatLocals>>

NextConc ==
    \E r \in Requests :
        \/ CoEntryCheckFails(r)
        \/ CoReceive(r)
        \/ CoLLM1Fails(r)
        \/ CoLLM1Answers(r)
        \/ CoCallLLM2(r)
        \/ CoLLM2Fails(r)
        \/ CoLLM2Answers(r)

SpecConc == InitConc /\ [][NextConc]_vars

\* request r got past the entry check
Started(r) == co[r].seen # <<>>

\* request r is between its LLM call #1 and the end of its turn
MidTurn(r) == co[r].pc \in {"llm1", "llm2"}

\* C17: the requests in flight work on the one session history, so what one
\* stored is in what the other's LLM is given: of any two requests that got
\* past the entry check, LLM call #1 of one is given the user message of the
\* other; every LLM call of a request is given that request's own user
\* message. The messages mix by whole turns: the handler never gives the
\* thread back, so at most one request is mid-turn, the one holding the thread.
C17_SharedHistoryCrossTalk ==
    /\ \A r \in Requests : \A q \in Requests \ {r} :
          (Started(r) /\ Started(q)) =>
              \/ UserMessageOf(q) \in Range(co[r].seen[1])
              \/ UserMessageOf(r) \in Range(co[q].seen[1])
    /\ \A r \in Requests : \A k \in 1..Len(co[r].seen) :
          UserMessageOf(r) \in Range(co[r].seen[k])
    /\ \A r \in Requests : MidTurn(r) => running = r

\* with both requests in flight from the start, the history holds both user
\* messages before any assistant answer (the turn of the first failed), and
\* the second request's LLM call #1 is given the first request's user message
C17_Witness ==
    \E r \in Requests : \E q \in Requests \ {r} :
        /\ co[q].pc = "failed"
        /\ co[r].pc = "llm1"
        /\ Len(session_history) = 3
        /\ session_history[2] = UserMessageOf(q)
        /\ session_history[3] = UserMessageOf(r)
        /\ co[r].seen[1] = session_history

\* ------------------------------------------------- the stored answer (C18)

\* the answer the caller was given and the message the turn stored last
Response == returned.body.response

Stored == session_history[Len(session_history)]

\* the answer cut to its first 2000 characters plus the marker when it is
\* longer than 2500 characters, and the answer itself otherwise
CutAt2000(answer) ==
    IF StrLen(answer) > 2500 THEN Prefix(answer, 2000) \o ResponseTruncated ELSE answer

\* the session history with this text as the content of its last message
WithLast(text) ==
    [session_history EXCEPT ![Len(session_history)] = [role |-> "assistant", content |-> text]]

\* C18 as stated: on the tool-call path the assistant message stored in the
\* history is the synthesized answer cut to its first 2000 characters plus a
\* marker when the answer is longer than 2500 characters, and the unchanged
\* answer otherwise; the response returned is the full answer.
C18_StoredCutAt2000 ==
    AnsweredWithTools =>
        /\ Response \in Answers
        /\ Stored = [role |-> "assistant", content |-> CutAt2000(Response)]

\* C18 amended: on the tool-call path the assistant message handed to
\* manage_conversation_history is the synthesized answer cut to its first
\* 2000 characters plus a marker when the answer is longer than 2500
\* characters, and the unchanged answer otherwise; the message stored is that
\* message, except that when the history with it is still above the token
\* limit and its content is longer than 1000 characters, the stored content is
\* its first 800 characters plus "... [Message truncated]".  The response
\* returned is the full answer in every case.
C18_StoredCutThenManaged ==
    AnsweredWithTools =>
        /\ Response \in Answers
        /\ Stored.role = "assistant"
        /\ Stored.content =
              IF /\ count_tokens(WithLast(CutAt2000(Response))) > SAFE_TOKEN_LIMIT
                 /\ StrLen(CutAt2000(Response)) > 1000
              THEN Prefix(CutAt2000(Response), 800) \o MessageTruncated
              ELSE CutAt2000(Response)

\* a turn on the tool-call path ended with an answer longer than 2500
\* characters: its first 2000 characters and the marker are stored, and the
\* caller was given all of it
C18_Witness ==
    /\ AnsweredWithTools
    /\ StrLen(Response) > 2500
    /\ Stored.content = Prefix(Response, 2000) \o ResponseTruncated
    /\ StrLen(Stored.content) = 2049

\* ------------------------------------------------ the working copy (C19)

\* a message of the tool-call exchange: a tool result, or the assistant
\* message that carries the tool calls
OfToolExchange(m) == m.role = "tool" \/ "tool_calls" \in DOMAIN m

\* C19: the assistant's tool-call message and the tool messages are added to
\* a working copy only: when LLM call #2 is made the session history is still
\* what storing the user message made it, the working copy is that history
\* followed by the messages of the tool-call exchange, and at every point of
\* every turn the session history holds no tool message and no assistant
\* tool-call message.
C19_ToolMessagesOnlyInCopy ==
    /\ \A i \in 1..Len(session_history) : ~OfToolExchange(session_history[i])
    /\ pc = "llm2" =>
          /\ session_history = manage_conversation_history(turn_start,
                                   [role |-> "user", content |-> request_query])
          /\ Len(messages_with_results) = Len(session_history) + 1 + Len(tool_calls)
          /\ SubSeq(messages_with_results, 1, Len(session_history)) = session_history
          /\ \A i \in (Len(session_history) + 1)..Len(messages_with_results) :
                OfToolExchange(messages_with_results[i])

\* in a second turn, after a first one that took the tool-call path, the
\* working copy of LLM call #2 carries a tool message and the session history
\* is shorter than it
C19_Witness ==
    /\ pc = "llm2"
    /\ turns = 2
    /\ \E i \in 1..Len(turn_start) : turn_start[i].role = "assistant"
    /\ \E i \in 1..Len(messages_with_results) : messages_with_results[i].role = "tool"
    /\ Len(session_history) < Len(messages_with_results)

\* --------------------------------------------- the newest message (C20)

\* the last element of a history
Newest(h) == h[Len(h)]

\* the message with its content cut by the final truncation step
Shortened(m) == [m EXCEPT !.content = Prefix(m.content, 800) \o MessageTruncated]

\* C20: after every call of manage_conversation_history the last element of
\* the returned history is the new message that was passed in, whole or with
\* its content cut by the final truncation step (then it was longer than 1000
\* characters); the new message is still the last element after the eviction
\* loop and after the collapse step.
C20_NewestKept ==
    mh_pc = "done" =>
        /\ mh_out # <<>>
        /\ Newest(EvictLoop(mh_appended)) = mh_new
        /\ Newest(Collapse(EvictLoop(mh_appended))) = mh_new
        /\ \/ Newest(mh_out) = mh_new
           \/ /\ Newest(mh_out) = Shortened(mh_new)
              /\ StrLen(mh_new.content) > 1000

\* a call that evicted older messages and returned the new message whole as
\* the last element
C20_Witness ==
    /\ mh_pc = "done"
    /\ Len(mh_out) < Len(mh_appended)
    /\ Newest(mh_out) = mh_new
    /\ Newest(mh_appended) = mh_new

\* ---------------------------------------------- the floor of three (C21)

\* C21: manage_conversation_history removes no message when the history after
\* the append has 3 or fewer messages, and whenever the history after the
\* append has at least 3 messages the returned history has at least 3
\* messages, however far over the limit it is.
C21_NeverBelowThree ==
    mh_pc = "done" =>
        /\ Len(mh_appended) <= 3 => Len(mh_out) = Len(mh_appended)
        /\ Len(mh_appended) >= 3 => Len(mh_out) >= 3

\* a call whose history after the append had more than 3 messages and whose
\* result, cut down to 3 messages, is still over the limit
C21_Witness ==
    /\ mh_pc = "done"
    /\ Len(mh_appended) > 3
    /\ Len(mh_out) = 3
    /\ count_tokens(mh_out) > SAFE_TOKEN_LIMIT
    /\ mh_out[1] = mh_appended[1]

\* ------------------------------------------- the final truncation (C22)

\* the history the final step is given
mh_collapsed == Collapse(EvictLoop(mh_appended))

\* the final step has work to do: the history is over the limit and has more
\* than one message
StillOver == count_tokens(mh_collapsed) > SAFE_TOKEN_LIMIT /\ Len(mh_collapsed) > 1

\* C22: when the history is still over the limit after eviction and has more
\* than one message, the content of the last message is replaced by its first
\* 800 characters plus the marker if and only if that content is longer than
\* 1000 characters; the step removes no message and changes no message other
\* than the last one (and none at all when the history is within the limit).
C22_FinalTruncation ==
    mh_pc = "done" =>
        /\ Len(mh_out) = Len(mh_collapsed)
        /\ \A i \in 1..(Len(mh_out) - 1) : mh_out[i] = mh_collapsed[i]
        /\ (StillOver /\ StrLen(Newest(mh_collapsed).content) > 1000) =>
              Newest(mh_out) = Shortened(Newest(mh_collapsed))
        /\ ~(StillOver /\ StrLen(Newest(mh_collapsed).content) > 1000) =>
              Newest(mh_out) = Newest(mh_collapsed)

\* a call in which the final step cut the last message and the history it
\* returned is over the limit all the same
C22_Witness ==
    /\ mh_pc = "done"
    /\ StillOver
    /\ Newest(mh_out) = Shortened(Newest(mh_collapsed))
    /\ Newest(mh_out) # Newest(mh_collapsed)
    /\ count_tokens(mh_out) > SAFE_TOKEN_LIMIT

\* a call in which the history is over the limit and the last message, not
\* longer than 1000 characters, is returned as it was
C22_ShortLeftAlone ==
    /\ mh_pc = "done"
    /\ StillOver
    /\ StrLen(Newest(mh_collapsed).content) <= 1000

\* --------------------------------------- the phrase that fired (C23)

\* the best/top phrases and the worst/bottom phrases of line 173
best_phrases == <<best_worst_phrases[1], best_worst_phrases[3], best_worst_phrases[5]>>

worst_phrases == <<best_worst_phrases[2], best_worst_phrases[4], best_worst_phrases[6]>>

FiredBestPhrase == ContainsAny(dp_lower, best_phrases)

FiredWorstPhrase == ContainsAny(dp_lower, worst_phrases)

\* C23 as stated: when a best/worst-district phrase fires, the query_type
\* follows the phrase that fired: best_district when a best/top phrase fired
\* and no worst/bottom phrase did, worst_district when a worst/bottom phrase
\* fired and no best/top phrase did, whatever other words the query contains.
C23_FollowsPhraseThatFired ==
    RankingDone =>
        /\ (FiredBestPhrase /\ ~FiredWorstPhrase) => dp_intent.query_type = QT_best_district
        /\ (FiredWorstPhrase /\ ~FiredBestPhrase) => dp_intent.query_type = QT_worst_district

\* ------------------------------------------- the cap at 3800 (C24)

\* the serialization of a result that has no enhanced_analysis field
sn_json == Json(CleanResult(sn_result))

\* C24 as stated: for every tool result that has no enhanced_analysis field
\* and whose serialization is longer than 4000 characters, the tool message
\* content is the first 3800 characters of the serialization plus the marker,
\* and so is at most 3800 characters plus the marker long.
C24_CappedAt3800 ==
    (/\ sn_pc = "done"
     /\ ~(IsDict(sn_result) /\ Has(sn_result, "enhanced_analysis"))
     /\ StrLen(sn_json) > 4000)
    => /\ sn_content = Prefix(sn_json, 3800) \o ResultTruncated
       /\ StrLen(sn_content) <= 3800 + StrLen(ResultTruncated)

\* ------------------------------------- the messages of LLM call #2 (C25)

\* C25: the message list of LLM call #2 is the session history (system
\* message first, the turn's user message last), then the assistant's
\* tool-call message, then one tool message per tool call in the order of the
\* calls, the i-th with the id of the i-th call and the sanitized result of
\* that call.
C25_MessagesOfLLM2 ==
    pc = "llm2" =>
        LET n == Len(session_history)
        IN /\ Len(messages_with_results) = n + 1 + Len(tool_calls)
           /\ Len(function_results) = Len(tool_calls)
           /\ \A j \in 1..n : messages_with_results[j] = session_history[j]
           /\ session_history[1].role = "system"
           /\ session_history[n].role = "user"
           /\ session_history[n].content \in
                 {request_query, Prefix(request_query, 800) \o MessageTruncated}
           /\ messages_with_results[n + 1] =
                 [role |-> "assistant", content |-> <<>>, tool_calls |-> tool_calls]
           /\ \A i \in 1..Len(tool_calls) :
                 /\ function_results[i].function = tool_calls[i].name
                 /\ function_results[i].arguments = tool_calls[i].arguments
                 /\ messages_with_results[n + 1 + i] =
                       [role |-> "tool",
                        tool_call_id |-> tool_calls[i].id,
                        content |-> CapResult(ResultStr(CleanResult(function_results[i].result)))]

\* LLM call #2 of a second turn, made after two tool calls with different ids
\* and different results
C25_Witness ==
    /\ pc = "llm2"
    /\ turns = 2
    /\ Len(tool_calls) = 2
    /\ tool_calls[1].id # tool_calls[2].id
    /\ function_results[1].result # function_results[2].result
    /\ Len(messages_with_results) = Len(session_history) + 3

\* ------------------------------------ what a successful turn adds (C26)

\* the turn ended with an answer
Answered == TurnEnded /\ returned.kind = "body"

\* the two messages of the turn: the user message, and the answer as the
\* path of the turn stores it
TurnMessages ==
    << [role |-> "user", content |-> request_query],
       [role |-> "assistant",
        content |-> IF "data" \in DOMAIN returned.body THEN CutAt2000(Response) ELSE Response] >>

\* the history before the turn, system message first, followed by the turn's
\* two messages
Untrimmed == EnsureSystem(turn_start) \o TurnMessages

\* C26: after a successful turn in which no trimming occurs (the history
\* before the turn and the turn's two messages are within the token limit
\* together), the session history is the history before the turn, system
\* message first, followed by exactly the turn's user message and then one
\* assistant message with the answer: the direct answer as it is, or the
\* synthesized answer in its cut form.
C26_TurnAddsTwo ==
    (Answered /\ count_tokens(Untrimmed) <= SAFE_TOKEN_LIMIT) => session_history = Untrimmed

\* a second successful turn, on the direct path with an answer longer than
\* 2500 characters, after a first one on the tool-call path: five messages
C26_Witness ==
    /\ Answered
    /\ turns = 2
    /\ "data" \notin DOMAIN returned.body
    /\ StrLen(Response) > 2500
    /\ Len(turn_start) = 3
    /\ StrLen(turn_start[3].content) = 2049
    /\ Len(session_history) = 5
    /\ session_history = Untrimmed

\* ------------------------------------- the collapse never fires (C27)

\* C27: whenever the eviction loop exits, the token count is within the limit
\* or the history has at most 3 messages, so the guard of the collapse to the
\* system message and the last two messages is false and the collapse leaves
\* the history as the loop left it.
C27_CollapseNeverFires ==
    mh_pc = "done" =>
        /\ count_tokens(mh_evicted) <= SAFE_TOKEN_LIMIT \/ Len(mh_evicted) <= 3
        /\ ~(count_tokens(mh_evicted) > SAFE_TOKEN_LIMIT /\ Len(mh_evicted) > 3)
        /\ Collapse(mh_evicted) = mh_evicted

\* a call in which the loop evicted down to the floor of 3 messages and left
\* with the history over the limit: the collapse has nothing to do
C27_Witness ==
    /\ mh_pc = "done"
    /\ Len(mh_appended) > 3
    /\ Len(mh_evicted) = 3
    /\ count_tokens(mh_evicted) > SAFE_TOKEN_LIMIT
    /\ Collapse(mh_evicted) = mh_evicted

\* ----------------------------------- the query_type passed on (C28)

\* lines 523-527: the values the tool catalog declares for query_type
QueryTypeEnum == {QT_individual, QT_top_performers, QT_bottom_performers, QT_trend}

\* C28 as stated: the query_type the dispatcher passes to get_sdg_goal_data
\* is one of the values the tool catalog declares for it, whether it comes
\* from the model's arguments or from the intent analyzer.
C28_QueryTypeInCatalog ==
    RankingDone => Passed("query_type") \in QueryTypeEnum

\* ------------------------------------- dispatch that raises (C29)

\* C29 as stated: for every function name of the catalog and every argument
\* object the model may send, one that omits a required argument or carries
\* an undeclared one included, dispatch returns a result and the turn goes on
\* to LLM call #2: no dispatch of a function of the catalog raises an
\* exception that ends the turn.
C29_CatalogDispatchNeverRaises ==
    \A j \in 1..Len(steps) :
        steps[j].e = "dispatch raised" => tool_calls[steps[j].i].name \notin CatalogNames

\* ------------------------------- the results after the sanitizer (C30)

\* C30: sanitizing the results for the model leaves them as the collaborators
\* returned them: the step that builds the tool messages from the sanitized
\* copies changes no entry of function_results, and the step that answers
\* returns that list as the data of the response.
C30_ResultsLeftAsReturned ==
    [][ /\ (pc = "tools" /\ pc' = "llm2") =>
              /\ function_results' = function_results
              /\ \A i \in 1..Len(tool_calls) :
                    messages_with_results'[Len(session_history) + 1 + i].content =
                        ToolContent(function_results[i].result)
        /\ (pc = "llm2" /\ pc' = "idle" /\ returned'.kind = "body") =>
              returned'.body.data = function_results ]_vars

\* a turn answered after two tool calls: the data of the response carries the
\* ranking result with its boundary key, all its rows and no data_summary
\* key, and the trend result with its boundary_data key and its data, while
\* their sanitized copies have lost the geometries and carry a data_summary
C30_Witness ==
    /\ AnsweredWithTools
    /\ Len(returned.body.data) = 2
    /\ returned.body.data[1].result = R_trend
    /\ returned.body.data[2].result = R_ranking
    /\ Has(returned.body.data[1].result, "boundary_data")
    /\ Has(returned.body.data[1].result, "data")
    /\ Has(returned.body.data[2].result, "boundary")
    /\ Len(Get(returned.body.data[2].result, "data").list) = LongList
    /\ ~Has(returned.body.data[1].result, "data_summary")
    /\ ~Has(returned.body.data[2].result, "data_summary")
    /\ Has(CleanResult(R_ranking), "data_summary")
    /\ Len(Get(CleanResult(R_ranking), "data").list) = 10
    /\ ~Has(CleanResult(R_ranking), "boundary")
    /\ Has(CleanResult(R_trend), "data_summary")
    /\ ~Has(CleanResult(R_trend), "data")
    /\ ~Has(CleanResult(R_trend), "boundary_data")

====
